---- MODULE Spec2Model ----
(***************************************************************************)
(* A model of pse-data-scraper: the history fetcher and its cache          *)
(* (downloader.py, models.py), the download loop, the directory scraper    *)
(* (scraper.py), the pipeline (pipeline.py) and the rate-limited client    *)
(* (client.py).                                                            *)
(***************************************************************************)
EXTENDS Integers, Sequences, FiniteSets, TLC

VARIABLES
    cache,          \* the files of the cache directory: cache file name -> content
    cacheWas,       \* the cache directory as the latest call found it
    files,          \* the per-company output files: file name -> content
    io,             \* the I/O operations of the latest call, in the order made
    call,           \* the arguments of the latest fetch_historical_data call
    answer,         \* what the history endpoint answered to that call, if asked
    ret,            \* what that call returned or raised
    prevIo,         \* io, call and ret of the fetch_historical_data call before it
    prevCall,
    prevRet,
    nCalls,         \* calls made so far in a run of fetch_historical_data calls
    args,           \* download_historical_data: its arguments
    idx,            \* the position in companies of the next loop iteration
    processed,      \* its local processed
    saved_paths,    \* its local saved_paths
    dlPc,           \* "idle", "loop", "returned" or "raised"
    dlExc,          \* the exception that left download_historical_data
    logged,         \* the log line of the latest loop iteration
    directory,      \* the company directory: what it answers for page 1, 2, ...
    max_pages,      \* scrape_companies: its argument
    page,           \* its local page
    all_companies,  \* its local all_companies
    scPc,           \* "idle", "loop", "returned" or "raised"
    scExc,          \* the exception that left scrape_companies
    fetched,        \* the pages requested so far, in order
    syncArgs,       \* sync_data: its arguments
    syncPc,         \* "idle", "step1", "step2", "step3", "done" or "aborted"
    companies_csv,  \* the companies list file
    combined_csv,   \* the combined dataset file
    clock,          \* time.monotonic()
    rate_limit_seconds,     \* PSEClient.rate_limit_seconds
    last_request_at,        \* PSEClient._last_request_at
    rpc,            \* per caller of request(): where it is in _respect_rate_limit
    now,            \* per caller: its local now
    wake,           \* per caller: when its time.sleep may end
    dispatched,     \* the requests dispatched so far, in order
    overlapped,     \* a call of request() began while another was under way
    given,          \* utils.py: the argument of the function applied
    cleaned,        \* what the function returned for it
    again,          \* what the function returned for a second argument
    utilPc          \* "idle", "start", "once" or "twice"

fetchVars == <<cache, cacheWas, io, call, answer, ret>>
histVars == <<prevIo, prevCall, prevRet, nCalls>>
dlVars == <<args, idx, processed, saved_paths, dlPc, dlExc, logged>>
scrapeVars == <<directory, max_pages, page, all_companies, scPc, scExc, fetched>>
syncVars == <<syncArgs, syncPc, companies_csv, combined_csv>>
rateVars ==
    <<clock, rate_limit_seconds, last_request_at, rpc, now, wake, dispatched, overlapped>>
utilVars == <<given, cleaned, again, utilPc>>
vars == <<fetchVars, histVars, files, dlVars, scrapeVars, syncVars, rateVars, utilVars>>

-----------------------------------------------------------------------------
(* Bounds of the model.                                                    *)

MaxItems == 4       \* chart items in one payload of the row-extraction runs
MaxCalls == 2       \* fetch_historical_data calls in one run of the cache runs
MaxCompanies == 2   \* companies in the list given to download_historical_data
MaxPages == 3       \* pages of the company directory

-----------------------------------------------------------------------------
(* JSON values of a chart item: a key is absent, or holds null, a number   *)
(* or text.                                                                *)

Absent == [t |-> "absent", s |-> ""]
Null == [t |-> "null", s |-> ""]
Num(s) == [t |-> "num", s |-> s]
Text(s) == [t |-> "str", s |-> s]

\* Python's str(): text is itself, a number its literal, None is "None".
Str(v) == IF v.t = "null" THEN "None" ELSE v.s

\* models.py: CHART_DATE_FORMAT = "%b %d, %Y %H:%M:%S" and strptime(...).date():
\* the texts of the model that match the format, and the calendar day each
\* denotes (the time of day is dropped); any other text is a ValueError.
ChartDateTexts == {"Jan 02, 2024 00:00:00", "Jan 02, 2024 13:30:00", "Jan 03, 2024 00:00:00"}
ChartDateOf(s) ==
    CASE s = "Jan 02, 2024 00:00:00" -> <<2024, 1, 2>>
      [] s = "Jan 02, 2024 13:30:00" -> <<2024, 1, 2>>
      [] s = "Jan 03, 2024 00:00:00" -> <<2024, 1, 3>>

PriceFields == {"VALUE", "OPEN", "CLOSE", "HIGH", "LOW"}

\* A chart item: a JSON object with these keys, or anything else (obj = FALSE).
Item(d, v, o, c, h, l) ==
    [obj |-> TRUE, CHART_DATE |-> d, VALUE |-> v, OPEN |-> o, CLOSE |-> c, HIGH |-> h, LOW |-> l]
NotAnObject ==
    [obj |-> FALSE, CHART_DATE |-> Absent, VALUE |-> Absent, OPEN |-> Absent,
     CLOSE |-> Absent, HIGH |-> Absent, LOW |-> Absent]

ItemA == Item(Text("Jan 02, 2024 00:00:00"), Num("10.5"), Num("10"), Num("11"), Num("12"), Num("9"))
ItemB == Item(Text("Jan 03, 2024 00:00:00"), Text("-"), Null, Num("11"), Num("12"), Num("9"))
ItemNoDate == Item(Absent, Num("10.5"), Num("10"), Num("11"), Num("12"), Num("9"))
ItemBadDate == Item(Text("2024-01-02"), Num("10.5"), Num("10"), Num("11"), Num("12"), Num("9"))
ItemNoLow == Item(Text("Jan 02, 2024 13:30:00"), Num("10.5"), Num("10"), Num("11"), Num("12"), Absent)
ItemNoValue == Item(Text("Jan 02, 2024 13:30:00"), Absent, Num("10"), Num("11"), Num("12"), Num("9"))
ItemNullDate == Item(Null, Num("10.5"), Num("10"), Num("11"), Num("12"), Num("9"))

ChartItems ==
    {ItemA, ItemB, ItemNoDate, ItemBadDate, ItemNoLow, ItemNoValue, ItemNullDate, NotAnObject}

-----------------------------------------------------------------------------
(* models.py                                                               *)

Company(cid, sid, name, sym) ==
    [company_id |-> cid, security_id |-> sid, company_name |-> name, stock_symbol |-> sym]

HistoricalPrice(d, sym, v, o, c, h, l) ==
    [date |-> d, symbol |-> sym, value |-> v, open |-> o, close |-> c, high |-> h, low |-> l]

NoRow == HistoricalPrice(<<0, 0, 0>>, "", "", "", "", "", "")

\* HistoricalPrice.from_api: the row, None, or the exception that escapes.
\* payload["CHART_DATE"] comes first (TypeError on a non-object, KeyError on a
\* missing key), then strptime (TypeError on a non-text date, ValueError on
\* text that does not match), then the five price fields (KeyError); only
\* KeyError and ValueError are caught.
FromApi(payload, symbol) ==
    IF ~payload.obj THEN [kind |-> "raise", exc |-> "TypeError", row |-> NoRow]
    ELSE IF payload.CHART_DATE.t = "absent" THEN [kind |-> "none", exc |-> "", row |-> NoRow]
    ELSE IF payload.CHART_DATE.t # "str"
        THEN [kind |-> "raise", exc |-> "TypeError", row |-> NoRow]
    ELSE IF payload.CHART_DATE.s \notin ChartDateTexts
        THEN [kind |-> "none", exc |-> "", row |-> NoRow]
    ELSE IF \E f \in PriceFields : payload[f].t = "absent"
        THEN [kind |-> "none", exc |-> "", row |-> NoRow]
    ELSE [kind |-> "row", exc |-> "",
          row |-> HistoricalPrice(ChartDateOf(payload.CHART_DATE.s), symbol,
                                  Str(payload.VALUE), Str(payload.OPEN), Str(payload.CLOSE),
                                  Str(payload.HIGH), Str(payload.LOW))]

-----------------------------------------------------------------------------
(* The decoded history response: a JSON object that may carry chartData,   *)
(* or some other JSON value.                                               *)

Payload(top, ct, items) == [top |-> top, chartData |-> [t |-> ct, items |-> items]]

ChartPayload(items) == Payload("object", "list", items)
PayloadNoChart == Payload("object", "absent", <<>>)      \* {}
PayloadNullChart == Payload("object", "null", <<>>)      \* {"chartData": null}
PayloadArray == Payload("array", "absent", <<>>)         \* []
PayloadNull == Payload("null", "absent", <<>>)           \* null

Returned(rows) == [kind |-> "return", exc |-> "", rows |-> rows]
Raised(exc) == [kind |-> "raise", exc |-> exc, rows |-> <<>>]

\* downloader.py 96-99: the loop over chart_data; the first exception that
\* escapes from_api ends the loop and the call.
RECURSIVE ParseItems(_, _, _)
ParseItems(items, symbol, results) ==
    IF items = <<>> THEN Returned(results)
    ELSE LET parsed == FromApi(Head(items), symbol) IN
         IF parsed.kind = "raise" THEN Raised(parsed.exc)
         ELSE ParseItems(Tail(items), symbol,
                         IF parsed.kind = "row" THEN Append(results, parsed.row) ELSE results)

\* downloader.py 94-100: cache_payload.get("chartData", []) and the loop.
\* Only a JSON object has .get (AttributeError otherwise); a null chartData
\* cannot be iterated (TypeError).
ParseChartData(cache_payload, symbol) ==
    IF cache_payload.top # "object" THEN Raised("AttributeError")
    ELSE IF cache_payload.chartData.t = "absent" THEN Returned(<<>>)
    ELSE IF cache_payload.chartData.t = "null" THEN Raised("TypeError")
    ELSE ParseItems(cache_payload.chartData.items, symbol, <<>>)

-----------------------------------------------------------------------------
(* The cache directory.                                                    *)

\* What a cache file holds: nothing (no such file), the JSON text of a
\* payload, text that is not JSON (an empty or cut-off file), or bytes that
\* are not UTF-8.
CacheFile(kind, payload) == [kind |-> kind, payload |-> payload]
NoFile == CacheFile("absent", PayloadNull)
JsonFile(payload) == CacheFile("json", payload)
InvalidJsonFile == CacheFile("invalid_json", PayloadNull)
UndecodableFile == CacheFile("undecodable", PayloadNull)

_cache_key(company, start_date, end_date) ==
    company.company_id \o "_" \o company.security_id \o "_" \o start_date \o "_"
        \o end_date \o ".json"

\* _load_cached_json: None when the file does not exist, when open or read
\* fails with an OSError and when the text is not JSON (JSONDecodeError); the
\* decoded value otherwise, which is None for the text null. Bytes that are
\* not UTF-8 raise UnicodeDecodeError, which neither except clause names.
LoadedNone == [kind |-> "none", exc |-> "", payload |-> PayloadNull]
_load_cached_json(file, readOk) ==
    IF file.kind = "absent" THEN LoadedNone
    ELSE IF ~readOk THEN LoadedNone
    ELSE IF file.kind = "undecodable"
        THEN [kind |-> "raise", exc |-> "UnicodeDecodeError", payload |-> PayloadNull]
    ELSE IF file.kind = "invalid_json" THEN LoadedNone
    ELSE IF file.payload.top = "null" THEN LoadedNone
    ELSE [kind |-> "value", exc |-> "", payload |-> file.payload]

\* _save_cached_json: mkdir, open("w") and json.dump under except OSError.
\* When mkdir or open fails the file is as it was; when the dump fails the
\* file, truncated by open("w"), holds a cut-off text. The OSError is caught
\* and logged: exc, the exception that escapes, is always empty.
WriteFaults == {"ok", "open_fails", "dump_fails"}
Saved(file, exc) == [file |-> file, exc |-> exc]

\* Two slips: a save that writes nothing, a save whose OSError escapes.
SaveNotPersisted(file, payload, write) == Saved(file, "")
SaveOSErrorEscapes(file, payload, write) ==
    CASE write = "ok" -> Saved(JsonFile(payload), "")
      [] write = "open_fails" -> Saved(file, "OSError")
      [] write = "dump_fails" -> Saved(InvalidJsonFile, "OSError")

_save_cached_json(file, payload, write) ==
    CASE write = "ok" -> Saved(JsonFile(payload), "")
      [] write = "open_fails" -> Saved(file, "")
      [] write = "dump_fails" -> Saved(InvalidJsonFile, "")

-----------------------------------------------------------------------------
(* The history endpoint as the fetcher sees it through client.post.        *)

\* client.post raises (a transport failure, or the retries are exhausted),
\* or returns a response with a status and a body that is JSON text or not.
Response(status, decodable, payload) ==
    [kind |-> "response", status |-> status, decodable |-> decodable, payload |-> payload]
TransportError ==
    [kind |-> "transport_error", status |-> 0, decodable |-> FALSE, payload |-> PayloadNull]

\* response.raise_for_status(): HTTPError for a 4xx or 5xx status.
RaisesForStatus(response) == response.status >= 400 /\ response.status < 600

\* fetch_historical_data. cache_dir is "none" or the cache directory, disk
\* the files of that directory; env is what the environment does during the
\* call: whether the cache file can be read, what the endpoint answers,
\* whether the cache file can be written. The result is what the call
\* returns or raises, the cache directory afterwards, and the I/O operations
\* made, in order.
FetchResult(outcome, disk, ops) == [outcome |-> outcome, disk |-> disk, io |-> ops]

\* A slip: the cache is read whatever refresh says.
LoadsOnRefresh(cache_dir, refresh) == cache_dir # "none"

\* fetch_historical_data 74-77: the cache file is looked up.
TryLoad(cache_dir, refresh) == cache_dir # "none" /\ ~refresh

fetch_historical_data(company, start_date, end_date, cache_dir, refresh, disk, env) ==
    LET cache_path == _cache_key(company, start_date, end_date)
        tryLoad == TryLoad(cache_dir, refresh)
        loaded == IF tryLoad THEN _load_cached_json(disk[cache_path], env.readOk)
                  ELSE LoadedNone
        readOps == IF tryLoad /\ disk[cache_path].kind # "absent"
                   THEN IF env.readOk THEN <<"cache_read">> ELSE <<"cache_read_oserror">>
                   ELSE <<>>
        response == env.net
        saved == _save_cached_json(disk[cache_path], response.payload, env.write)
        writeOps == IF env.write = "ok" THEN <<"cache_write">> ELSE <<"cache_write_oserror">>
    IN  IF loaded.kind = "raise" THEN FetchResult(Raised(loaded.exc), disk, readOps)
        ELSE IF loaded.kind = "value"
            THEN FetchResult(ParseChartData(loaded.payload, company.stock_symbol), disk, readOps)
        ELSE IF response.kind = "transport_error"
            THEN FetchResult(Raised("ConnectionError"), disk, readOps \o <<"post">>)
        ELSE IF RaisesForStatus(response)
            THEN FetchResult(Raised("HTTPError"), disk, readOps \o <<"post">>)
        ELSE IF ~response.decodable
            THEN FetchResult(Raised("JSONDecodeError"), disk, readOps \o <<"post">>)
        ELSE IF cache_dir = "none"
            THEN FetchResult(ParseChartData(response.payload, company.stock_symbol), disk,
                             readOps \o <<"post">>)
        ELSE IF saved.exc # ""
            THEN FetchResult(Raised(saved.exc), [disk EXCEPT ![cache_path] = saved.file],
                             readOps \o <<"post">> \o writeOps)
        ELSE FetchResult(ParseChartData(response.payload, company.stock_symbol),
                         [disk EXCEPT ![cache_path] = saved.file],
                         readOps \o <<"post">> \o writeOps)

-----------------------------------------------------------------------------
(* The inputs of the runs.                                                 *)

Acme == Company("111", "222", "Acme Corp", "ACM")
Bdo == Company("333", "444", "Banco de Oro", "BDO")
Companies == {Acme, Bdo}
NoCompany == Company("", "", "", "")

\* download_historical_data 145-146: the default start, and an end date.
StartPayload == "01-01-1900"
EndPayload == "01-02-2024"

CacheDirs == {"none", ".cache"}
CacheNames == {_cache_key(c, StartPayload, EndPayload) : c \in Companies}
EmptyCache == [n \in CacheNames |-> NoFile]

PayloadA == ChartPayload(<<ItemA>>)
PayloadBA == ChartPayload(<<ItemB, ItemNoDate, ItemA>>)
PayloadNoRows == ChartPayload(<<ItemBadDate>>)
PayloadBadItem == ChartPayload(<<ItemA, ItemNullDate>>)

\* The answers of the history endpoint in the cache runs, and what the
\* environment does during one call (a write fault matters only when the
\* answer gets as far as the write).
NetOutcomes ==
    {TransportError, Response(404, TRUE, PayloadA), Response(300, TRUE, PayloadA),
     Response(200, FALSE, PayloadNull),
     Response(200, TRUE, PayloadA), Response(200, TRUE, PayloadBA),
     Response(200, TRUE, PayloadNoRows), Response(200, TRUE, PayloadArray)}
Writable(net) == net.kind = "response" /\ ~RaisesForStatus(net) /\ net.decodable
Envs ==
    {env \in [readOk : BOOLEAN, net : NetOutcomes, write : WriteFaults] :
        env.write # "ok" => Writable(env.net)}

\* What a cache directory left by earlier runs may hold for one company.
OldCacheFiles == {JsonFile(PayloadA), JsonFile(PayloadArray), InvalidJsonFile, UndecodableFile}
OldCaches ==
    {EmptyCache} \cup
    {[EmptyCache EXCEPT ![_cache_key(Acme, StartPayload, EndPayload)] = f] : f \in OldCacheFiles}

NoCsvFile == [exists |-> FALSE, rows |-> <<>>]

Call(company, start_date, end_date, cache_dir, refresh) ==
    [company |-> company, start_date |-> start_date, end_date |-> end_date,
     cache_dir |-> cache_dir, refresh |-> refresh]
NoCall == Call(NoCompany, "", "", "none", FALSE)
NoRet == [kind |-> "none", exc |-> "", rows |-> <<>>]
NoAnswer == [kind |-> "none", status |-> 0, decodable |-> FALSE, payload |-> PayloadNull]

Has(ops, op) == \E i \in 1..Len(ops) : ops[i] = op

-----------------------------------------------------------------------------
(* download_historical_data.                                               *)

\* utils.py: format_output_date, "%d/%m/%Y", on the dates of the model.
format_output_date(value) ==
    CASE value = <<2024, 1, 2>> -> "02/01/2024"
      [] value = <<2024, 1, 3>> -> "03/01/2024"

\* write_company_history_csv: one line per row under the header
\* Date, Symbol, Value, Open, Close, High, Low.
CsvLine(item) ==
    [Date |-> format_output_date(item.date), Symbol |-> item.symbol, Value |-> item.value,
     Open |-> item.open, Close |-> item.close, High |-> item.high, Low |-> item.low]
CsvFile(rows) == [exists |-> TRUE, rows |-> [i \in 1..Len(rows) |-> CsvLine(rows[i])]]
OldCsvFile ==
    CsvFile(<<HistoricalPrice(<<2024, 1, 2>>, "OLD", "1", "1", "1", "1", "1")>>)

\* utils.py: sanitize_filename on the company names of the model.
SafeNameOf(company_name) ==
    CASE company_name = "Acme Corp" -> "Acme_Corp"
      [] company_name = "Banco de Oro" -> "Banco_de_Oro"

\* download_historical_data 159-161: the output file of a company.
OutputPath(company) ==
    company.stock_symbol \o "_" \o SafeNameOf(company.company_name) \o ".csv"

\* str.strip() and str.upper() on the symbols of the model.
Strip(symbol) == CASE symbol = " bdo " -> "bdo" [] OTHER -> symbol
Upper(symbol) == CASE symbol = "bdo" -> "BDO" [] symbol = "acm" -> "ACM" [] OTHER -> symbol

\* download_historical_data 141: None when symbols is None or empty.
SymbolSet(symbols) == {Upper(Strip(symbols[i])) : i \in 1..Len(symbols)}

\* download_historical_data 152: the company is outside the allow-list.
FilteredOut(company, symbols) ==
    SymbolSet(symbols) # {} /\ Upper(company.stock_symbol) \notin SymbolSet(symbols)

\* max_companies is None.
NoCap == -1

\* A cap that lets one company too many through.
CapOffByOne(max_companies, n) == max_companies # NoCap /\ n > max_companies

\* download_historical_data 155: the cap is reached.
CapReached(max_companies, n) == max_companies # NoCap /\ n >= max_companies

\* A slip: the existence check with refresh the wrong way round.
SkipsWhenRefreshing(exists, refresh) == exists /\ refresh

\* download_historical_data 163: output_path.exists() and not refresh.
AlreadySaved(exists, refresh) == exists /\ ~refresh

\* requests.RequestException and its subclasses (requests' JSONDecodeError is
\* one); ValueError and KeyError with theirs (UnicodeDecodeError is a
\* ValueError).
IsRequestException(exc) == exc \in {"ConnectionError", "HTTPError", "JSONDecodeError"}
IsValueOrKeyError(exc) == exc \in {"JSONDecodeError", "UnicodeDecodeError", "ValueError", "KeyError"}

\* An emptiness test that never fires.
NeverEmpty(rows) == FALSE

\* download_historical_data 179: not rows.
NoRows(rows) == rows = <<>>

DownloadArgs(companies, symbols, max_companies, cache_dir, refresh) ==
    [companies |-> companies, symbols |-> symbols, max_companies |-> max_companies,
     cache_dir |-> cache_dir, refresh |-> refresh]

DownloadIdle ==
    /\ args = DownloadArgs(<<>>, <<>>, NoCap, "none", FALSE)
    /\ idx = 1 /\ processed = 0 /\ saved_paths = <<>>
    /\ dlPc = "idle" /\ dlExc = "" /\ logged = ""

\* The loop iteration for a company outside the allow-list (152-153).
DownloadFiltered ==
    /\ dlPc = "loop" /\ idx <= Len(args.companies)
    /\ FilteredOut(args.companies[idx], args.symbols)
    /\ idx' = idx + 1
    /\ logged' = ""
    /\ io' = <<>> /\ call' = NoCall /\ answer' = NoAnswer /\ ret' = NoRet
    /\ cacheWas' = cache
    /\ UNCHANGED <<cache, files, args, processed, saved_paths, dlPc, dlExc, histVars>>
    /\ UNCHANGED <<scrapeVars, syncVars, rateVars>>
    /\ UNCHANGED utilVars

\* The loop iteration that finds the cap reached (155-156), and the return.
DownloadBreak ==
    /\ dlPc = "loop" /\ idx <= Len(args.companies)
    /\ ~FilteredOut(args.companies[idx], args.symbols)
    /\ CapReached(args.max_companies, processed)
    /\ dlPc' = "returned"
    /\ logged' = ""
    /\ io' = <<>> /\ call' = NoCall /\ answer' = NoAnswer /\ ret' = NoRet
    /\ cacheWas' = cache
    /\ UNCHANGED <<cache, files, args, idx, processed, saved_paths, dlExc, histVars>>
    /\ UNCHANGED <<scrapeVars, syncVars, rateVars>>
    /\ UNCHANGED utilVars

\* The loop iteration for a company whose output file exists (158-166).
DownloadSkipExisting ==
    /\ dlPc = "loop" /\ idx <= Len(args.companies)
    /\ ~FilteredOut(args.companies[idx], args.symbols)
    /\ ~CapReached(args.max_companies, processed)
    /\ AlreadySaved(files[OutputPath(args.companies[idx])].exists, args.refresh)
    /\ processed' = processed + 1
    /\ saved_paths' = Append(saved_paths, OutputPath(args.companies[idx]))
    /\ idx' = idx + 1
    /\ logged' = "Skipping (already exists)"
    /\ io' = <<>> /\ call' = NoCall /\ answer' = NoAnswer /\ ret' = NoRet
    /\ cacheWas' = cache
    /\ UNCHANGED <<cache, files, args, dlPc, dlExc, histVars>>
    /\ UNCHANGED <<scrapeVars, syncVars, rateVars>>
    /\ UNCHANGED utilVars

\* The loop iteration that fetches (158-188): the fetch, the write of the
\* output file when there are rows, and the two except clauses.
DownloadFetch ==
    /\ dlPc = "loop" /\ idx <= Len(args.companies)
    /\ ~FilteredOut(args.companies[idx], args.symbols)
    /\ ~CapReached(args.max_companies, processed)
    /\ ~AlreadySaved(files[OutputPath(args.companies[idx])].exists, args.refresh)
    /\ processed' = processed + 1
    /\ \E env \in Envs :
        LET company == args.companies[idx]
            output_path == OutputPath(company)
            r == fetch_historical_data(company, StartPayload, EndPayload, args.cache_dir,
                                       args.refresh, cache, env)
            rows == r.outcome.rows
        IN  /\ cache' = r.disk
            /\ cacheWas' = cache
            /\ call' = Call(company, StartPayload, EndPayload, args.cache_dir, args.refresh)
            /\ answer' = IF Has(r.io, "post") THEN env.net ELSE NoAnswer
            /\ ret' = r.outcome
            /\ IF r.outcome.kind = "return" /\ NoRows(rows)
               THEN /\ logged' = "No data"
                    /\ io' = r.io
                    /\ idx' = idx + 1
                    /\ UNCHANGED <<files, saved_paths, dlPc, dlExc>>
               ELSE IF r.outcome.kind = "return"
               THEN /\ files' = [files EXCEPT ![output_path] = CsvFile(rows)]
                    /\ saved_paths' = Append(saved_paths, output_path)
                    /\ logged' = "Saved"
                    /\ io' = r.io \o <<"csv_write">>
                    /\ idx' = idx + 1
                    /\ UNCHANGED <<dlPc, dlExc>>
               ELSE IF IsRequestException(r.outcome.exc)
               THEN /\ logged' = "Request failed"
                    /\ io' = r.io
                    /\ idx' = idx + 1
                    /\ UNCHANGED <<files, saved_paths, dlPc, dlExc>>
               ELSE IF IsValueOrKeyError(r.outcome.exc)
               THEN /\ logged' = "Unexpected payload"
                    /\ io' = r.io
                    /\ idx' = idx + 1
                    /\ UNCHANGED <<files, saved_paths, dlPc, dlExc>>
               ELSE /\ dlPc' = "raised"
                    /\ dlExc' = r.outcome.exc
                    /\ logged' = ""
                    /\ io' = r.io
                    /\ UNCHANGED <<files, saved_paths, idx>>
    /\ UNCHANGED <<args, histVars, scrapeVars, syncVars, rateVars>>
    /\ UNCHANGED utilVars

\* The end of the list: return saved_paths (190).
DownloadReturn ==
    /\ dlPc = "loop" /\ idx > Len(args.companies)
    /\ dlPc' = "returned"
    /\ UNCHANGED <<fetchVars, histVars, files, args, idx, processed, saved_paths, dlExc, logged>>
    /\ UNCHANGED <<scrapeVars, syncVars, rateVars>>
    /\ UNCHANGED utilVars

OutputNames == {OutputPath(c) : c \in Companies}
NoOutputFiles == [n \in OutputNames |-> NoCsvFile]

-----------------------------------------------------------------------------
(* scraper.py                                                              *)

\* A row of table.list: how many cells it has, whether the first and the
\* second cell hold a link, the onclick of the first link and the two texts.
TableRow(cells, nameLink, onclick, name, symbolLink, symbol) ==
    [cells |-> cells, nameLink |-> nameLink, onclick |-> onclick, name |-> name,
     symbolLink |-> symbolLink, symbol |-> symbol]

\* re.search(r"cmDetail\('(\d+)',\s*'(\d+)'\)", onclick) on the onclick
\* values of the model: the two groups, or no match.
CmDetailMatch(onclick) ==
    CASE onclick = "cmDetail('111','222')" -> <<"111", "222">>
      [] onclick = "cmDetail('333', '444');return false;" -> <<"333", "444">>
      [] OTHER -> <<>>

\* str.strip() on the link texts of the model.
StripText(text) ==
    CASE text = " Banco de Oro " -> "Banco de Oro"
      [] text = " BDO" -> "BDO"
      [] OTHER -> text

RowAcme == TableRow(2, TRUE, "cmDetail('111','222')", "Acme Corp", TRUE, "ACM")
RowBdo ==
    TableRow(3, TRUE, "cmDetail('333', '444');return false;", " Banco de Oro ", TRUE, " BDO")
RowOneCell == TableRow(1, TRUE, "cmDetail('111','222')", "Acme Corp", FALSE, "")
RowNoNameLink == TableRow(2, FALSE, "", "", TRUE, "ACM")
RowNoSymbolLink == TableRow(2, TRUE, "cmDetail('111','222')", "Acme Corp", FALSE, "")
RowBadOnclick == TableRow(2, TRUE, "cmDetail('abc','222')", "Acme Corp", TRUE, "ACM")
RowNoOnclick == TableRow(2, TRUE, "", "Acme Corp", TRUE, "ACM")
\* The second cell holds a link without text, <a></a>: find("a") gives a Tag,
\* and a Tag is true whatever it contains.
RowEmptySymbol == TableRow(2, TRUE, "cmDetail('111','222')", "Acme Corp", TRUE, "")

\* parse_companies_from_html: the loop over the rows.
RECURSIVE parse_companies_from_html(_)
parse_companies_from_html(rows) ==
    IF rows = <<>> THEN <<>>
    ELSE LET row == Head(rows)
             match == CmDetailMatch(row.onclick)
             rest == parse_companies_from_html(Tail(rows))
         IN  IF row.cells < 2 THEN rest
             ELSE IF ~row.nameLink \/ ~row.symbolLink THEN rest
             ELSE IF match = <<>> THEN rest
             ELSE <<Company(match[1], match[2], StripText(row.name), StripText(row.symbol))>>
                    \o rest

\* What client.get gives for a directory page: a response with a status and
\* a page, or an exception (a transport failure, or the retries exhausted).
PageResponse(status, rows) == [kind |-> "response", status |-> status, rows |-> rows]
PageTransportError == [kind |-> "transport_error", status |-> 0, rows |-> <<>>]

\* The directory answers page p; after its last page it answers with an
\* empty table.
DirectoryAnswer(dir, p) == IF p <= Len(dir) THEN dir[p] ELSE PageResponse(200, <<>>)

\* max_pages is None.
NoLimit == -1

\* A slip: the page's rows replace the list instead of extending it.
ExtendReplaces(all, new_rows) == new_rows

\* scrape_companies 80: all_companies.extend(new_rows).
Extend(all, new_rows) == all \o new_rows

\* A slip: the loop goes one page past the limit.
LimitOffByOne(limit, p) == limit # NoLimit /\ p > limit + 1

\* scrape_companies 65: max_pages is not None and page > max_pages.
PageLimitReached(limit, p) == limit # NoLimit /\ p > limit

ScrapeIdle ==
    /\ directory = <<>> /\ max_pages = NoLimit
    /\ page = 1 /\ all_companies = <<>>
    /\ scPc = "idle" /\ scExc = "" /\ fetched = <<>>

\* The loop iteration that finds page > max_pages (65-66), and the return.
ScrapeLimit ==
    /\ scPc = "loop"
    /\ PageLimitReached(max_pages, page)
    /\ scPc' = "returned"
    /\ UNCHANGED <<directory, max_pages, page, all_companies, scExc, fetched>>
    /\ UNCHANGED <<fetchVars, histVars, files, dlVars, syncVars, rateVars>>
    /\ UNCHANGED utilVars

\* The loop iteration whose client.get raises (70): nothing catches it.
ScrapeFetchRaises ==
    /\ scPc = "loop"
    /\ ~PageLimitReached(max_pages, page)
    /\ DirectoryAnswer(directory, page).kind = "transport_error"
    /\ fetched' = Append(fetched, page)
    /\ scPc' = "raised" /\ scExc' = "ConnectionError"
    /\ UNCHANGED <<directory, max_pages, page, all_companies>>
    /\ UNCHANGED <<fetchVars, histVars, files, dlVars, syncVars, rateVars>>
    /\ UNCHANGED utilVars

\* The loop iteration that ends the scrape (71-78): a status other than 200,
\* or a page without a parseable row.
ScrapeStop ==
    /\ scPc = "loop"
    /\ ~PageLimitReached(max_pages, page)
    /\ LET response == DirectoryAnswer(directory, page) IN
        /\ response.kind = "response"
        /\ \/ response.status # 200
           \/ parse_companies_from_html(response.rows) = <<>>
    /\ fetched' = Append(fetched, page)
    /\ scPc' = "returned"
    /\ UNCHANGED <<directory, max_pages, page, all_companies, scExc>>
    /\ UNCHANGED <<fetchVars, histVars, files, dlVars, syncVars, rateVars>>
    /\ UNCHANGED utilVars

\* The loop iteration that keeps the page's rows (75-81).
ScrapeExtend ==
    /\ scPc = "loop"
    /\ ~PageLimitReached(max_pages, page)
    /\ LET response == DirectoryAnswer(directory, page) IN
        /\ response.kind = "response" /\ response.status = 200
        /\ parse_companies_from_html(response.rows) # <<>>
        /\ all_companies' = Extend(all_companies, parse_companies_from_html(response.rows))
    /\ fetched' = Append(fetched, page)
    /\ page' = page + 1
    /\ UNCHANGED <<directory, max_pages, scPc, scExc>>
    /\ UNCHANGED <<fetchVars, histVars, files, dlVars, syncVars, rateVars>>
    /\ UNCHANGED utilVars

\* The pages and the answers of the directory in the runs.
DirectoryPages ==
    {<<RowAcme>>, <<RowNoNameLink, RowBdo, RowAcme>>, <<RowOneCell, RowBadOnclick>>, <<>>,
     <<RowEmptySymbol, RowAcme>>}
DirectoryAnswers ==
    {PageResponse(200, rows) : rows \in DirectoryPages}
        \cup {PageResponse(404, <<RowAcme>>), PageTransportError}

-----------------------------------------------------------------------------
(* The idle pipeline and the idle client of the runs of one function.      *)

NoCompaniesCsv == [exists |-> FALSE, companies |-> <<>>]
NoCombinedCsv == [exists |-> FALSE, rows |-> <<>>]
SyncArgs(symbols, max_companies, cache_dir, refresh, maxPages) ==
    [symbols |-> symbols, max_companies |-> max_companies, cache_dir |-> cache_dir,
     refresh |-> refresh, max_pages |-> maxPages]

SyncIdle ==
    /\ syncArgs = SyncArgs(<<>>, NoCap, "none", FALSE, NoLimit)
    /\ syncPc = "idle"
    /\ companies_csv = NoCompaniesCsv
    /\ combined_csv = NoCombinedCsv

\* _last_request_at is None.
NoStamp == -1

ClientIdle ==
    /\ clock = 0 /\ rate_limit_seconds = 0 /\ last_request_at = NoStamp
    /\ rpc = <<>> /\ now = <<>> /\ wake = <<>> /\ dispatched = <<>>
    /\ overlapped = FALSE

UtilIdle == given = <<>> /\ cleaned = <<>> /\ again = <<>> /\ utilPc = "idle"

-----------------------------------------------------------------------------
(* Runs of scrape_companies.                                               *)

InitScrape ==
    /\ cache = EmptyCache /\ cacheWas = cache
    /\ files = NoOutputFiles
    /\ io = <<>> /\ call = NoCall /\ answer = NoAnswer /\ ret = NoRet
    /\ prevIo = <<>> /\ prevCall = NoCall /\ prevRet = NoRet
    /\ nCalls = 0
    /\ DownloadIdle /\ SyncIdle /\ ClientIdle /\ UtilIdle
    /\ directory \in [1..MaxPages -> DirectoryAnswers]
    /\ max_pages \in {NoLimit} \cup 0..MaxPages
    /\ page = 1 /\ all_companies = <<>>
    /\ scPc = "loop" /\ scExc = "" /\ fetched = <<>>

NextScrape ==
    \/ ScrapeLimit
    \/ ScrapeFetchRaises
    \/ ScrapeStop
    \/ ScrapeExtend

SpecScrape == InitScrape /\ [][NextScrape]_vars

\* The loop of scrape_companies keeps running until it breaks or raises.
SpecScrapeRuns == SpecScrape /\ WF_vars(NextScrape)

-----------------------------------------------------------------------------
(* Runs of download_historical_data.                                       *)

CompanyLists == UNION {[1..n -> Companies] : n \in 0..MaxCompanies}
SymbolLists == {<<>>, <<" bdo ">>}
Caps == {NoCap, 0, 1}
DownloadCaches ==
    {EmptyCache} \cup
    {[EmptyCache EXCEPT ![_cache_key(Acme, StartPayload, EndPayload)] = f] :
        f \in {JsonFile(PayloadA), UndecodableFile}}

InitDownload ==
    /\ cache \in DownloadCaches /\ cacheWas = cache
    /\ files \in [OutputNames -> {NoCsvFile, OldCsvFile}]
    /\ io = <<>> /\ call = NoCall /\ answer = NoAnswer /\ ret = NoRet
    /\ prevIo = <<>> /\ prevCall = NoCall /\ prevRet = NoRet
    /\ nCalls = 0
    /\ \E companies \in CompanyLists, symbols \in SymbolLists, max_companies \in Caps,
          cache_dir \in CacheDirs, refresh \in BOOLEAN :
        args = DownloadArgs(companies, symbols, max_companies, cache_dir, refresh)
    /\ idx = 1 /\ processed = 0 /\ saved_paths = <<>>
    /\ dlPc = "loop" /\ dlExc = "" /\ logged = ""
    /\ ScrapeIdle /\ SyncIdle /\ ClientIdle /\ UtilIdle

NextDownload ==
    \/ DownloadFiltered
    \/ DownloadBreak
    \/ DownloadSkipExisting
    \/ DownloadFetch
    \/ DownloadReturn

SpecDownload == InitDownload /\ [][NextDownload]_vars

-----------------------------------------------------------------------------
(* combiner.py and pipeline.py                                             *)

\* A listing of the directory that is not sorted.
UnsortedNames == <<"BDO_Banco_de_Oro.csv", "notes.csv", "ACM_Acme_Corp.csv">>

\* sorted(glob("*.csv")) over the file names of the model.
SortedOutputNames == <<"ACM_Acme_Corp.csv", "BDO_Banco_de_Oro.csv", "notes.csv">>

\* file_path.stem split on its first underscore: the symbol and the company,
\* or nothing when the stem has no underscore.
SplitStem(name) ==
    CASE name = "ACM_Acme_Corp.csv" -> <<"ACM", "Acme_Corp">>
      [] name = "BDO_Banco_de_Oro.csv" -> <<"BDO", "Banco_de_Oro">>
      [] OTHER -> <<>>

\* What csv.DictReader gives for a column the file or the line does not
\* have, and what csv.writer writes for it.
None == "None"
Written(v) == IF v = None THEN "" ELSE v

\* A slip: the file name's symbol always wins.
SymbolFromFileName(row, symbol, company) ==
    [Symbol |-> symbol, Company |-> company,
     Date |-> Written(row.Date), Value |-> Written(row.Value), Open |-> Written(row.Open),
     Close |-> Written(row.Close), High |-> Written(row.High), Low |-> Written(row.Low)]

\* combine_csvs 42-53: one line of the combined file.
CombinedLine(row, symbol, company) ==
    [Symbol |-> IF row.Symbol \notin {"", None} THEN row.Symbol ELSE symbol,
     Company |-> company,
     Date |-> Written(row.Date), Value |-> Written(row.Value), Open |-> Written(row.Open),
     Close |-> Written(row.Close), High |-> Written(row.High), Low |-> Written(row.Low)]

RECURSIVE CombinedLines(_, _)
CombinedLines(names, fs) ==
    IF names = <<>> THEN <<>>
    ELSE LET name == Head(names)
             stem == SplitStem(name)
             rest == CombinedLines(Tail(names), fs)
         IN  IF name \notin DOMAIN fs THEN rest
             ELSE IF ~fs[name].exists \/ stem = <<>> THEN rest
             ELSE [i \in 1..Len(fs[name].rows) |->
                        CombinedLine(fs[name].rows[i], stem[1], stem[2])] \o rest

\* combine_csvs: nothing is written when the directory holds no csv file.
combine_csvs(fs, old) ==
    IF \A n \in DOMAIN fs : ~fs[n].exists THEN old
    ELSE [exists |-> TRUE, rows |-> CombinedLines(SortedOutputNames, fs)]

\* A company whose name runs over two lines of the page, and the name as a
\* text-mode read gives it back.
WrappedName == "Acme\r\nCorp"
UnwrappedName == "Acme\nCorp"
AcmeWrapped == Company("111", "222", WrappedName, "ACM")

\* open(path) without newline="": every \r\n and \r read becomes \n, inside
\* a quoted field too.
UniversalNewlines(text) == CASE text = WrappedName -> UnwrappedName [] OTHER -> text

\* save_companies_to_csv 86-98: csv.writer on a file opened with newline=""
\* quotes what needs it and writes every character; the file is modelled by
\* the records its text encodes.
save_companies_to_csv(companies) == [exists |-> TRUE, companies |-> companies]

\* load_companies_from_csv 101-115: csv.DictReader on a text-mode file.
load_companies_from_csv(file) ==
    [i \in 1..Len(file.companies) |->
        Company(UniversalNewlines(file.companies[i].company_id),
                UniversalNewlines(file.companies[i].security_id),
                UniversalNewlines(file.companies[i].company_name),
                UniversalNewlines(file.companies[i].stock_symbol))]

\* ensure_companies_csv 32-34: the file exists and refresh is false; the
\* list is loaded and step 2 of sync_data starts with it.
SyncLoadCompanies ==
    /\ syncPc = "step1" /\ scPc = "idle"
    /\ companies_csv.exists /\ ~syncArgs.refresh
    /\ args' = DownloadArgs(load_companies_from_csv(companies_csv), syncArgs.symbols,
                            syncArgs.max_companies, syncArgs.cache_dir, syncArgs.refresh)
    /\ idx' = 1 /\ processed' = 0 /\ saved_paths' = <<>>
    /\ dlPc' = "loop"
    /\ syncPc' = "step2"
    /\ UNCHANGED <<fetchVars, histVars, files, dlExc, logged, scrapeVars, rateVars>>
    /\ UNCHANGED <<syncArgs, companies_csv, combined_csv>>
    /\ UNCHANGED utilVars

\* ensure_companies_csv 36-37: the scrape starts.
SyncStartScrape ==
    /\ syncPc = "step1" /\ scPc = "idle"
    /\ ~(companies_csv.exists /\ ~syncArgs.refresh)
    /\ max_pages' = syncArgs.max_pages
    /\ page' = 1 /\ all_companies' = <<>>
    /\ scPc' = "loop"
    /\ UNCHANGED <<directory, scExc, fetched>>
    /\ UNCHANGED <<fetchVars, histVars, files, dlVars, syncVars, rateVars>>
    /\ UNCHANGED utilVars

\* ensure_companies_csv 38-39 once the scrape has returned: the list is
\* saved and step 2 of sync_data starts with it.
SyncSaveCompanies ==
    /\ syncPc = "step1" /\ scPc = "returned"
    /\ companies_csv' = save_companies_to_csv(all_companies)
    /\ args' = DownloadArgs(all_companies, syncArgs.symbols, syncArgs.max_companies,
                            syncArgs.cache_dir, syncArgs.refresh)
    /\ idx' = 1 /\ processed' = 0 /\ saved_paths' = <<>>
    /\ dlPc' = "loop"
    /\ syncPc' = "step2"
    /\ UNCHANGED <<fetchVars, histVars, files, dlExc, logged, scrapeVars, rateVars>>
    /\ UNCHANGED <<syncArgs, combined_csv>>
    /\ UNCHANGED utilVars

\* The exception of scrape_companies leaves ensure_companies_csv and
\* sync_data: neither catches anything.
SyncScrapeRaised ==
    /\ syncPc = "step1" /\ scPc = "raised"
    /\ syncPc' = "aborted"
    /\ UNCHANGED <<fetchVars, histVars, files, dlVars, scrapeVars, rateVars>>
    /\ UNCHANGED <<syncArgs, companies_csv, combined_csv>>
    /\ UNCHANGED utilVars

\* The exception of download_historical_data leaves download_prices and
\* sync_data.
SyncDownloadRaised ==
    /\ syncPc = "step2" /\ dlPc = "raised"
    /\ syncPc' = "aborted"
    /\ UNCHANGED <<fetchVars, histVars, files, dlVars, scrapeVars, rateVars>>
    /\ UNCHANGED <<syncArgs, companies_csv, combined_csv>>
    /\ UNCHANGED utilVars

\* sync_data 109-110: step 3, export_prices, once the downloads returned.
SyncExport ==
    /\ syncPc = "step2" /\ dlPc = "returned"
    /\ combined_csv' = combine_csvs(files, combined_csv)
    /\ syncPc' = "done"
    /\ UNCHANGED <<fetchVars, histVars, files, dlVars, scrapeVars, rateVars>>
    /\ UNCHANGED <<syncArgs, companies_csv>>
    /\ UNCHANGED utilVars

\* export_prices with the files of the history directory as they are.
Combine ==
    /\ utilPc = "start"
    /\ combined_csv' = combine_csvs(files, combined_csv)
    /\ utilPc' = "once"
    /\ UNCHANGED <<given, cleaned, again>>
    /\ UNCHANGED <<syncArgs, syncPc, companies_csv>>
    /\ UNCHANGED <<fetchVars, histVars, files, dlVars, scrapeVars, rateVars>>

-----------------------------------------------------------------------------
(* Runs of combine_csvs over a directory of up to three files.             *)

MaxRows == 2

CombineNames == {"ACM_Acme_Corp.csv", "BDO_Banco_de_Oro.csv", "notes.csv"}
InputLine(symbol) ==
    [Date |-> "02/01/2024", Symbol |-> symbol, Value |-> "10.5", Open |-> "10",
     Close |-> "11", High |-> None, Low |-> "9"]
InputLines == {InputLine(symbol) : symbol \in {"XYZ", "", None}}
InputFiles ==
    {NoCsvFile} \cup
    {[exists |-> TRUE, rows |-> rows] : rows \in UNION {[1..n -> InputLines] : n \in 0..MaxRows}}
OldCombinedCsv == [exists |-> TRUE, rows |-> <<>>]

InitCombine ==
    /\ cache = EmptyCache /\ cacheWas = cache
    /\ files \in {fs \in [CombineNames -> InputFiles] :
                    fs["notes.csv"] \in {NoCsvFile, [exists |-> TRUE, rows |-> <<InputLine("XYZ")>>]}}
    /\ io = <<>> /\ call = NoCall /\ answer = NoAnswer /\ ret = NoRet
    /\ prevIo = <<>> /\ prevCall = NoCall /\ prevRet = NoRet
    /\ nCalls = 0
    /\ DownloadIdle /\ ScrapeIdle /\ ClientIdle
    /\ syncArgs = SyncArgs(<<>>, NoCap, "none", FALSE, NoLimit)
    /\ syncPc = "idle"
    /\ companies_csv = NoCompaniesCsv
    /\ combined_csv \in {NoCombinedCsv, OldCombinedCsv}
    /\ given = <<>> /\ cleaned = <<>> /\ again = <<>>
    /\ utilPc = "start"

NextCombine == Combine

SpecCombine == InitCombine /\ [][NextCombine]_vars

-----------------------------------------------------------------------------
(* Runs of ensure_companies_csv, step 1 of sync_data.                      *)

InitEnsure ==
    /\ cache = EmptyCache /\ cacheWas = cache
    /\ files = NoOutputFiles
    /\ io = <<>> /\ call = NoCall /\ answer = NoAnswer /\ ret = NoRet
    /\ prevIo = <<>> /\ prevCall = NoCall /\ prevRet = NoRet
    /\ nCalls = 0
    /\ DownloadIdle /\ ClientIdle /\ UtilIdle
    /\ directory \in [1..MaxPages -> DirectoryAnswers]
    /\ max_pages = NoLimit
    /\ page = 1 /\ all_companies = <<>>
    /\ scPc = "idle" /\ scExc = "" /\ fetched = <<>>
    /\ \E refresh \in BOOLEAN, maxPages \in {NoLimit} \cup 0..MaxPages :
        syncArgs = SyncArgs(<<>>, NoCap, "none", refresh, maxPages)
    /\ syncPc = "step1"
    /\ companies_csv \in
            {NoCompaniesCsv, save_companies_to_csv(<<>>), save_companies_to_csv(<<Bdo>>),
             save_companies_to_csv(<<AcmeWrapped, Bdo>>)}
    /\ combined_csv = NoCombinedCsv

NextEnsure ==
    \/ SyncLoadCompanies
    \/ SyncStartScrape
    \/ ScrapeLimit
    \/ ScrapeFetchRaises
    \/ ScrapeStop
    \/ ScrapeExtend
    \/ SyncSaveCompanies
    \/ SyncScrapeRaised

SpecEnsure == InitEnsure /\ [][NextEnsure]_vars

-----------------------------------------------------------------------------
(* Runs of sync_data.                                                      *)

SyncDirectories ==
    {<<PageResponse(200, <<RowAcme>>)>>,
     <<PageResponse(200, <<RowNoNameLink, RowBdo, RowAcme>>)>>,
     <<PageResponse(200, <<RowBdo>>), PageTransportError>>,
     <<PageResponse(200, <<RowAcme>>), PageResponse(404, <<>>)>>,
     <<PageTransportError>>}

InitSync ==
    /\ cache = EmptyCache /\ cacheWas = cache
    /\ files \in {NoOutputFiles, [NoOutputFiles EXCEPT ![OutputPath(Acme)] = OldCsvFile]}
    /\ io = <<>> /\ call = NoCall /\ answer = NoAnswer /\ ret = NoRet
    /\ prevIo = <<>> /\ prevCall = NoCall /\ prevRet = NoRet
    /\ nCalls = 0
    /\ DownloadIdle /\ ClientIdle /\ UtilIdle
    /\ directory \in SyncDirectories
    /\ max_pages = NoLimit
    /\ page = 1 /\ all_companies = <<>>
    /\ scPc = "idle" /\ scExc = "" /\ fetched = <<>>
    /\ \E symbols \in SymbolLists, max_companies \in {NoCap, 1},
          cache_dir \in CacheDirs, refresh \in BOOLEAN, maxPages \in {NoLimit, 1} :
        syncArgs = SyncArgs(symbols, max_companies, cache_dir, refresh, maxPages)
    /\ syncPc = "step1"
    /\ companies_csv \in {NoCompaniesCsv, [exists |-> TRUE, companies |-> <<Bdo>>]}
    /\ combined_csv = NoCombinedCsv

NextSync ==
    \/ SyncLoadCompanies
    \/ SyncStartScrape
    \/ ScrapeLimit
    \/ ScrapeFetchRaises
    \/ ScrapeStop
    \/ ScrapeExtend
    \/ SyncSaveCompanies
    \/ SyncScrapeRaised
    \/ DownloadFiltered
    \/ DownloadBreak
    \/ DownloadSkipExisting
    \/ DownloadFetch
    \/ DownloadReturn
    \/ SyncDownloadRaised
    \/ SyncExport

SpecSync == InitSync /\ [][NextSync]_vars

-----------------------------------------------------------------------------
(* client.py: PSEClient._respect_rate_limit and request.                   *)

MaxRate == 2
MaxClock == 6
MaxRequests == 3

\* PSEClient.__init__ 35: max(rate_limit_seconds, 0.0).
ClampRate(r) == IF r > 0 THEN r ELSE 0

\* A sleep that ends too early by the time already elapsed.
SleepsElapsed(rate, elapsed) == elapsed

\* _respect_rate_limit 65: the argument of time.sleep.
SleepSeconds(rate, elapsed) == rate - elapsed

\* A request handed to session.request; `at` is the reading of the
\* monotonic clock the client took for it, `slept` whether time.sleep ran.
Dispatch(c, at, slept) == [caller |-> c, at |-> at, slept |-> slept]

\* time.monotonic() advances.
Tick ==
    /\ clock < MaxClock
    /\ clock' = clock + 1
    /\ UNCHANGED <<rate_limit_seconds, last_request_at, rpc, now, wake, dispatched, overlapped>>
    /\ UNCHANGED <<fetchVars, histVars, files, dlVars, scrapeVars, syncVars>>
    /\ UNCHANGED utilVars

\* request 69-72 with _respect_rate_limit 57-58: no limit, nothing is read.
RateUnlimited(c) ==
    /\ rpc[c] = "idle" /\ Len(dispatched) < MaxRequests
    /\ rate_limit_seconds <= 0
    /\ dispatched' = Append(dispatched, Dispatch(c, clock, FALSE))
    /\ UNCHANGED <<clock, rate_limit_seconds, last_request_at, rpc, now, wake, overlapped>>
    /\ UNCHANGED <<fetchVars, histVars, files, dlVars, scrapeVars, syncVars>>
    /\ UNCHANGED utilVars

\* _respect_rate_limit 59: now = time.monotonic().
RateReadClock(c) ==
    /\ rpc[c] = "idle" /\ Len(dispatched) < MaxRequests
    /\ rate_limit_seconds > 0
    /\ now' = [now EXCEPT ![c] = clock]
    /\ rpc' = [rpc EXCEPT ![c] = "read"]
    /\ overlapped' = (overlapped \/ \E d \in DOMAIN rpc : d # c /\ rpc[d] # "idle")
    /\ UNCHANGED <<clock, rate_limit_seconds, last_request_at, wake, dispatched>>
    /\ UNCHANGED <<fetchVars, histVars, files, dlVars, scrapeVars, syncVars>>
    /\ UNCHANGED utilVars

\* _respect_rate_limit 60-62: the first request is stamped with now. The
\* locals of the call end with it.
RateFirst(c) ==
    /\ rpc[c] = "read"
    /\ last_request_at = NoStamp
    /\ last_request_at' = now[c]
    /\ dispatched' = Append(dispatched, Dispatch(c, now[c], FALSE))
    /\ rpc' = [rpc EXCEPT ![c] = "idle"]
    /\ now' = [now EXCEPT ![c] = 0] /\ wake' = [wake EXCEPT ![c] = 0]
    /\ UNCHANGED <<clock, rate_limit_seconds, overlapped>>
    /\ UNCHANGED <<fetchVars, histVars, files, dlVars, scrapeVars, syncVars>>
    /\ UNCHANGED utilVars

\* _respect_rate_limit 63-65: too early, time.sleep starts.
RateSleep(c) ==
    /\ rpc[c] = "read"
    /\ last_request_at # NoStamp
    /\ LET elapsed == now[c] - last_request_at
       IN  /\ elapsed < rate_limit_seconds
           /\ wake' = [wake EXCEPT ![c] = clock + SleepSeconds(rate_limit_seconds, elapsed)]
    /\ rpc' = [rpc EXCEPT ![c] = "sleeping"]
    /\ UNCHANGED <<clock, rate_limit_seconds, last_request_at, now, dispatched, overlapped>>
    /\ UNCHANGED <<fetchVars, histVars, files, dlVars, scrapeVars, syncVars>>
    /\ UNCHANGED utilVars

\* _respect_rate_limit 64: late enough, no sleep.
RateNoSleep(c) ==
    /\ rpc[c] = "read"
    /\ last_request_at # NoStamp
    /\ now[c] - last_request_at >= rate_limit_seconds
    /\ rpc' = [rpc EXCEPT ![c] = "stamp"]
    /\ UNCHANGED <<clock, rate_limit_seconds, last_request_at, now, wake, dispatched, overlapped>>
    /\ UNCHANGED <<fetchVars, histVars, files, dlVars, scrapeVars, syncVars>>
    /\ UNCHANGED utilVars

\* time.sleep returns, no earlier than asked.
RateWake(c) ==
    /\ rpc[c] = "sleeping"
    /\ clock >= wake[c]
    /\ rpc' = [rpc EXCEPT ![c] = "woken"]
    /\ UNCHANGED <<clock, rate_limit_seconds, last_request_at, now, wake, dispatched, overlapped>>
    /\ UNCHANGED <<fetchVars, histVars, files, dlVars, scrapeVars, syncVars>>
    /\ UNCHANGED utilVars

\* _respect_rate_limit 66 and request 70-72: the stamp is a fresh reading.
RateStamp(c) ==
    /\ rpc[c] \in {"stamp", "woken"}
    /\ last_request_at' = clock
    /\ dispatched' = Append(dispatched, Dispatch(c, clock, rpc[c] = "woken"))
    /\ rpc' = [rpc EXCEPT ![c] = "idle"]
    /\ now' = [now EXCEPT ![c] = 0] /\ wake' = [wake EXCEPT ![c] = 0]
    /\ UNCHANGED <<clock, rate_limit_seconds, overlapped>>
    /\ UNCHANGED <<fetchVars, histVars, files, dlVars, scrapeVars, syncVars>>
    /\ UNCHANGED utilVars

-----------------------------------------------------------------------------
(* Runs of one sequential caller of PSEClient.request.                     *)

SequentialCallers == {1}

RateArgs == (0 - 1)..MaxRate

InitRate ==
    /\ cache = EmptyCache /\ cacheWas = cache
    /\ files = NoOutputFiles
    /\ io = <<>> /\ call = NoCall /\ answer = NoAnswer /\ ret = NoRet
    /\ prevIo = <<>> /\ prevCall = NoCall /\ prevRet = NoRet
    /\ nCalls = 0
    /\ DownloadIdle /\ ScrapeIdle /\ SyncIdle /\ UtilIdle
    /\ clock = 0
    /\ \E r \in RateArgs : rate_limit_seconds = ClampRate(r)
    /\ last_request_at = NoStamp
    /\ rpc = [c \in SequentialCallers |-> "idle"]
    /\ now = [c \in SequentialCallers |-> 0]
    /\ wake = [c \in SequentialCallers |-> 0]
    /\ dispatched = <<>>
    /\ overlapped = FALSE

NextRate ==
    \/ Tick
    \/ \E c \in SequentialCallers :
        \/ RateUnlimited(c)
        \/ RateReadClock(c)
        \/ RateFirst(c)
        \/ RateSleep(c)
        \/ RateNoSleep(c)
        \/ RateWake(c)
        \/ RateStamp(c)

SpecRate == InitRate /\ [][NextRate]_vars

-----------------------------------------------------------------------------
(* Runs of two callers sharing one PSEClient: _respect_rate_limit takes no *)
(* lock, so their steps interleave freely.                                 *)

ConcurrentCallers == {1, 2}

InitRateConcurrent ==
    /\ cache = EmptyCache /\ cacheWas = cache
    /\ files = NoOutputFiles
    /\ io = <<>> /\ call = NoCall /\ answer = NoAnswer /\ ret = NoRet
    /\ prevIo = <<>> /\ prevCall = NoCall /\ prevRet = NoRet
    /\ nCalls = 0
    /\ DownloadIdle /\ ScrapeIdle /\ SyncIdle /\ UtilIdle
    /\ clock = 0
    /\ \E r \in RateArgs : rate_limit_seconds = ClampRate(r)
    /\ last_request_at = NoStamp
    /\ rpc = [c \in ConcurrentCallers |-> "idle"]
    /\ now = [c \in ConcurrentCallers |-> 0]
    /\ wake = [c \in ConcurrentCallers |-> 0]
    /\ dispatched = <<>>
    /\ overlapped = FALSE

NextRateConcurrent ==
    \/ Tick
    \/ \E c \in ConcurrentCallers :
        \/ RateUnlimited(c)
        \/ RateReadClock(c)
        \/ RateFirst(c)
        \/ RateSleep(c)
        \/ RateNoSleep(c)
        \/ RateWake(c)
        \/ RateStamp(c)

SpecRateConcurrent == InitRateConcurrent /\ [][NextRateConcurrent]_vars

-----------------------------------------------------------------------------
(* utils.py: sanitize_filename. A string is the sequence of its characters;  *)
(* in an argument an HTML entity is one element.                            *)

MaxTail == 4

\* sanitize_filename: the default of max_length.
MaxLength == 140

\* What str.strip() strips and \s matches, among the characters of the model.
Whitespace == {" ", "\t"}

\* The character class of line 37.
UnsafeChars == {"\\", "/", ":", "*", "?", "\"", "<", ">", "|"}

\* html.unescape (35): each entity becomes its character.
html_unescape(v) ==
    [i \in 1..Len(v) |->
        CASE v[i] = "&amp;" -> "&"
          [] v[i] = "&lt;" -> "<"
          [] OTHER -> v[i]]

\* str.strip(chars) (35, 41): what lies between the first and the last
\* character that is not one of chars.
StripOf(v, chars) ==
    LET kept == {i \in 1..Len(v) : v[i] \notin chars}
    IN  IF kept = {} THEN <<>>
        ELSE SubSeq(v, CHOOSE i \in kept : \A j \in kept : i <= j,
                       CHOOSE i \in kept : \A j \in kept : j <= i)

\* cleaned.replace("&", "and") (36), half by half.
RECURSIVE ReplaceAmp(_)
ReplaceAmp(v) ==
    IF v = <<>> THEN <<>>
    ELSE IF Len(v) = 1 THEN (IF v[1] = "&" THEN <<"a", "n", "d">> ELSE v)
    ELSE ReplaceAmp(SubSeq(v, 1, Len(v) \div 2))
            \o ReplaceAmp(SubSeq(v, Len(v) \div 2 + 1, Len(v)))

\* A slip: the unsafe characters are kept.
KeepsUnsafe(v) == v

\* re.sub of the unsafe class with "-" (37).
ReplaceUnsafe(v) == [i \in 1..Len(v) |-> IF v[i] \in UnsafeChars THEN "-" ELSE v[i]]

\* re.sub(r"\s+", " ") (38) and re.sub(r"_+", "_") (40): each run of
\* characters of the class becomes one character.
\* The first character of a run stays, as the replacement; the rest go.
RunStart(e) == e[2]
CollapseRuns(v, chars, to) ==
    LET marked == [i \in 1..Len(v) |->
                      IF v[i] \notin chars THEN <<v[i], TRUE>>
                      ELSE <<to, i = 1 \/ v[i - 1] \notin chars>>]
        starts == SelectSeq(marked, RunStart)
    IN  [i \in 1..Len(starts) |-> starts[i][1]]

\* cleaned.replace(" ", "_") (39).
SpacesToUnderscores(v) == [i \in 1..Len(v) |-> IF v[i] = " " THEN "_" ELSE v[i]]

\* A slip: the slice is left out.
NotTruncated(v, max_length) == v

\* cleaned[:max_length] (44).
Truncate(v, max_length) ==
    SubSeq(v, 1, IF Len(v) < max_length THEN Len(v) ELSE max_length)

Unknown == <<"u", "n", "k", "n", "o", "w", "n">>

sanitize_filename(value, max_length) ==
    LET unescaped == StripOf(html_unescape(value), Whitespace)
        noAmp == ReplaceAmp(unescaped)
        noUnsafe == ReplaceUnsafe(noAmp)
        oneSpace == CollapseRuns(noUnsafe, Whitespace, " ")
        underscored == SpacesToUnderscores(oneSpace)
        oneUnderscore == CollapseRuns(underscored, {"_"}, "_")
        stripped == StripOf(oneUnderscore, {".", "_", "-"})
    IN  IF stripped = <<>> THEN Unknown ELSE Truncate(stripped, max_length)

\* sanitize_filename(given), then sanitize_filename of what it returned.
Sanitize ==
    /\ utilPc = "start"
    /\ cleaned' = sanitize_filename(given, MaxLength)
    /\ utilPc' = "once"
    /\ UNCHANGED <<given, again>>
    /\ UNCHANGED <<fetchVars, histVars, files, dlVars, scrapeVars, syncVars, rateVars>>

SanitizeAgain ==
    /\ utilPc = "once"
    /\ again' = sanitize_filename(cleaned, MaxLength)
    /\ utilPc' = "twice"
    /\ UNCHANGED <<given, cleaned>>
    /\ UNCHANGED <<fetchVars, histVars, files, dlVars, scrapeVars, syncVars, rateVars>>

-----------------------------------------------------------------------------
(* Runs of sanitize_filename: a name of up to MaxTail characters, alone or  *)
(* after letters that fill all of max_length but one.                       *)

NameChars == {"a", "&", "/", " ", "_", ".", "&lt;"}
Tails == UNION {[1..n -> NameChars] : n \in 0..MaxTail}
Letters(n) == [i \in 1..n |-> "a"]
Names == Tails \cup {Letters(MaxLength - 1) \o t : t \in Tails}

InitSanitize ==
    /\ cache = EmptyCache /\ cacheWas = cache
    /\ files = NoOutputFiles
    /\ io = <<>> /\ call = NoCall /\ answer = NoAnswer /\ ret = NoRet
    /\ prevIo = <<>> /\ prevCall = NoCall /\ prevRet = NoRet
    /\ nCalls = 0
    /\ DownloadIdle /\ ScrapeIdle /\ SyncIdle /\ ClientIdle
    /\ given \in Names
    /\ cleaned = <<>> /\ again = <<>>
    /\ utilPc = "start"

NextSanitize ==
    \/ Sanitize
    \/ SanitizeAgain

SpecSanitize == InitSanitize /\ [][NextSanitize]_vars

-----------------------------------------------------------------------------
(* utils.py: ensure_payload_date. A date is <<year, month, day>>; a text is  *)
(* the sequence of its fields between hyphens, with or without whitespace   *)
(* around it.                                                               *)

NoDate == <<0, 0, 0>>
DateObject(d) == [type |-> "date", day |-> d, pad |-> FALSE, fields |-> <<>>]
DateTimeObject(d) == [type |-> "datetime", day |-> d, pad |-> FALSE, fields |-> <<>>]
TextValue(pad, fields) == [type |-> "str", day |-> NoDate, pad |-> pad, fields |-> fields]

\* The digit strings of the model and their numbers.
FieldTexts == {"1", "01", "2", "02", "12", "13", "29", "31", "1900", "2024"}
NumOf(f) ==
    CASE f \in {"1", "01"} -> 1
      [] f \in {"2", "02"} -> 2
      [] f = "12" -> 12
      [] f = "13" -> 13
      [] f = "29" -> 29
      [] f = "31" -> 31
      [] f = "1900" -> 1900
      [] f = "2024" -> 2024

\* %m and %d of strftime: two digits; %Y: four digits for these years.
TwoDigits(n) ==
    CASE n = 1 -> "01" [] n = 2 -> "02" [] n = 12 -> "12" [] n = 13 -> "13"
      [] n = 29 -> "29" [] n = 31 -> "31"
FourDigits(y) == CASE y = 1900 -> "1900" [] y = 2024 -> "2024"

DaysIn(y, m) ==
    IF m = 2 THEN (IF y % 4 = 0 /\ (y % 100 # 0 \/ y % 400 = 0) THEN 29 ELSE 28)
    ELSE IF m \in {4, 6, 9, 11} THEN 30
    ELSE 31

\* datetime.strptime on three fields: %Y takes four digits, %m and %d one or
\* two; NoDate stands for the ValueError.
strptime(yf, mf, df) ==
    IF /\ Len(yf) = 4
       /\ Len(mf) \in {1, 2} /\ NumOf(mf) \in 1..12
       /\ Len(df) \in {1, 2} /\ NumOf(df) \in 1..DaysIn(NumOf(yf), NumOf(mf))
    THEN <<NumOf(yf), NumOf(mf), NumOf(df)>>
    ELSE NoDate

\* A slip: the day before the month.
FormatsDayFirst(d) == TextValue(FALSE, <<TwoDigits(d[3]), TwoDigits(d[2]), FourDigits(d[1])>>)

\* strftime(PAYLOAD_DATE_FORMAT), "%m-%d-%Y".
strftime_payload(d) == TextValue(FALSE, <<TwoDigits(d[2]), TwoDigits(d[3]), FourDigits(d[1])>>)

ensure_payload_date(value) ==
    IF value.type \in {"date", "datetime"} THEN strftime_payload(value.day)
    ELSE LET f == value.fields
             iso == IF Len(f) = 3 THEN strptime(f[1], f[2], f[3]) ELSE NoDate
             mdy == IF Len(f) = 3 THEN strptime(f[3], f[1], f[2]) ELSE NoDate
         IN  IF iso # NoDate THEN strftime_payload(iso)
             ELSE IF mdy # NoDate THEN strftime_payload(mdy)
             ELSE TextValue(FALSE, f)

\* ensure_payload_date(given), then ensure_payload_date of what it returned.
Normalize ==
    /\ utilPc = "start"
    /\ cleaned' = ensure_payload_date(given)
    /\ utilPc' = "once"
    /\ UNCHANGED <<given, again>>
    /\ UNCHANGED <<fetchVars, histVars, files, dlVars, scrapeVars, syncVars, rateVars>>

NormalizeAgain ==
    /\ utilPc = "once"
    /\ again' = ensure_payload_date(cleaned)
    /\ utilPc' = "twice"
    /\ UNCHANGED <<given, cleaned>>
    /\ UNCHANGED <<fetchVars, histVars, files, dlVars, scrapeVars, syncVars, rateVars>>

-----------------------------------------------------------------------------
(* Runs of ensure_payload_date.                                            *)

Days ==
    {d \in {1900, 2024} \X {1, 2, 12} \X {1, 2, 29, 31} : d[3] <= DaysIn(d[1], d[2])}
DateValues ==
    {DateObject(d) : d \in Days} \cup {DateTimeObject(d) : d \in Days}
        \cup {TextValue(pad, f) : pad \in BOOLEAN, f \in [1..3 -> FieldTexts]}
        \cup {TextValue(pad, <<f>>) : pad \in BOOLEAN, f \in FieldTexts}

InitNormalize ==
    /\ cache = EmptyCache /\ cacheWas = cache
    /\ files = NoOutputFiles
    /\ io = <<>> /\ call = NoCall /\ answer = NoAnswer /\ ret = NoRet
    /\ prevIo = <<>> /\ prevCall = NoCall /\ prevRet = NoRet
    /\ nCalls = 0
    /\ DownloadIdle /\ ScrapeIdle /\ SyncIdle /\ ClientIdle
    /\ given \in DateValues
    /\ cleaned = <<>> /\ again = <<>>
    /\ utilPc = "start"

NextNormalize ==
    \/ Normalize
    \/ NormalizeAgain

SpecNormalize == InitNormalize /\ [][NextNormalize]_vars

-----------------------------------------------------------------------------
(* Runs of two history requests whose cache files are named: the ids are   *)
(* what load_companies_from_csv read from companies.csv, the dates are     *)
(* payload dates.                                                          *)

CompanyIds == {"1", "2", "3", "1_2", "2_3"}
PayloadDates == {StartPayload, EndPayload, "02-01-2024"}
CacheRequests ==
    {Call(Company(cid, sid, "Acme Corp", "ACM"), start, end, ".cache", FALSE) :
        cid \in CompanyIds, sid \in CompanyIds, start \in PayloadDates, end \in PayloadDates}

\* fetch_historical_data 74-75 for each of the two requests.
NameCacheFiles ==
    /\ utilPc = "start"
    /\ cleaned' = [i \in 1..2 |->
                    _cache_key(given[i].company, given[i].start_date, given[i].end_date)]
    /\ utilPc' = "once"
    /\ UNCHANGED <<given, again>>
    /\ UNCHANGED <<fetchVars, histVars, files, dlVars, scrapeVars, syncVars, rateVars>>

InitCacheKey ==
    /\ cache = EmptyCache /\ cacheWas = cache
    /\ files = NoOutputFiles
    /\ io = <<>> /\ call = NoCall /\ answer = NoAnswer /\ ret = NoRet
    /\ prevIo = <<>> /\ prevCall = NoCall /\ prevRet = NoRet
    /\ nCalls = 0
    /\ DownloadIdle /\ ScrapeIdle /\ SyncIdle /\ ClientIdle
    /\ given \in CacheRequests \X CacheRequests
    /\ cleaned = <<>> /\ again = <<>>
    /\ utilPc = "start"

NextCacheKey == NameCacheFiles

SpecCacheKey == InitCacheKey /\ [][NextCacheKey]_vars

-----------------------------------------------------------------------------
(* config.py: load_config. A path is absolute or relative and has parts; a *)
(* TOML value is absent or has a type.                                     *)

PathOf(abs, parts) == [none |-> FALSE, abs |-> abs, parts |-> parts]
NoPath == [none |-> TRUE, abs |-> FALSE, parts |-> <<>>]

\* _resolve_path 43-49: base_dir / path unless the path is absolute.
_resolve_path(value, base_dir) ==
    IF value.none THEN NoPath
    ELSE IF ~value.abs THEN PathOf(base_dir.abs, base_dir.parts \o value.parts)
    ELSE value

TomlAbsent == [t |-> "absent", n |-> 0, s |-> "", items |-> <<>>]
TomlInt(n) == [t |-> "int", n |-> n, s |-> "", items |-> <<>>]
\* A float: s says finite, inf or nan, n is the value cut towards zero.
TomlFloat(s, n) == [t |-> "float", n |-> n, s |-> s, items |-> <<>>]
TomlStr(s) == [t |-> "str", n |-> 0, s |-> s, items |-> <<>>]
TomlBool(b) == [t |-> "bool", n |-> IF b THEN 1 ELSE 0, s |-> "", items |-> <<>>]
TomlList(items) == [t |-> "list", n |-> 0, s |-> "", items |-> items]

\* int(value) on the values of the model: bool is an int, a finite float is
\* cut, text is parsed; nan and other text raise ValueError, a list raises
\* TypeError, an infinite float raises OverflowError.
IntOf(value) ==
    CASE value.t \in {"int", "bool"} -> [exc |-> "", n |-> value.n]
      [] value.t = "float" /\ value.s = "finite" -> [exc |-> "", n |-> value.n]
      [] value.t = "float" /\ value.s = "inf" -> [exc |-> "OverflowError", n |-> 0]
      [] value.t = "float" /\ value.s = "nan" -> [exc |-> "ValueError", n |-> 0]
      [] value.t = "str" /\ value.s = "5" -> [exc |-> "", n |-> 5]
      [] value.t = "str" -> [exc |-> "ValueError", n |-> 0]
      [] OTHER -> [exc |-> "TypeError", n |-> 0]

\* _normalize_positive_int 64-71: the int when it is positive, None
\* (NoCap) otherwise and after TypeError or ValueError; any other exception
\* leaves the function.
_normalize_positive_int(value) ==
    LET parsed == IntOf(value)
    IN  IF parsed.exc \in {"TypeError", "ValueError"} THEN [exc |-> "", n |-> NoCap]
        ELSE IF parsed.exc # "" THEN [exc |-> parsed.exc, n |-> NoCap]
        ELSE [exc |-> "", n |-> IF parsed.n > 0 THEN parsed.n ELSE NoCap]

\* value.split(",") on the texts of the model.
SplitCommas(text) ==
    CASE text = "bdo, acm" -> <<"bdo", " acm">>
      [] OTHER -> <<text>>
StripItem(item) == CASE item = " acm" -> "acm" [] OTHER -> Strip(item)
NotEmpty(item) == item # ""

\* _parse_symbols 52-61.
_parse_symbols(value) ==
    LET items == IF value.t = "str" THEN SplitCommas(value.s)
                 ELSE IF value.t = "list" THEN value.items
                 ELSE <<>>
        stripped == SelectSeq([i \in 1..Len(items) |-> StripItem(items[i])], NotEmpty)
    IN  [i \in 1..Len(stripped) |-> Upper(stripped[i])]

\* Config() 74-85 and Config.resolve_paths 87-103.
DefaultDataDir == PathOf(FALSE, <<"data">>)
Under(dir, name) == PathOf(dir.abs, dir.parts \o <<name>>)
DerivedOr(path, data_dir, name) == IF path.none THEN Under(data_dir, name) ELSE path

\* load_config 128-161 for a config file found in base_dir: toml holds the
\* keys of [paths] and [download] the model follows.
load_config(base_dir, toml) ==
    LET data_dir == _resolve_path(
                        IF toml.data_dir.none THEN DefaultDataDir ELSE toml.data_dir, base_dir)
        max == IF toml.max_companies.t = "absent" THEN [exc |-> "", n |-> NoCap]
               ELSE _normalize_positive_int(toml.max_companies)
    IN  [exc |-> max.exc,
         data_dir |-> data_dir,
         companies_csv |->
            DerivedOr(_resolve_path(toml.companies_csv, base_dir), data_dir, "companies.csv"),
         history_dir |-> DerivedOr(_resolve_path(toml.history_dir, base_dir), data_dir, "history"),
         combined_csv |->
            DerivedOr(_resolve_path(toml.combined_csv, base_dir), data_dir, "combined.csv"),
         symbols |-> IF toml.symbols.t = "absent" THEN <<>> ELSE _parse_symbols(toml.symbols),
         max_companies |-> max.n]

\* load_config(path) with the file of the run.
BaseDir == PathOf(TRUE, <<"etc", "pse">>)
LoadConfig ==
    /\ utilPc = "start"
    /\ cleaned' = load_config(BaseDir, given)
    /\ utilPc' = "once"
    /\ UNCHANGED <<given, again>>
    /\ UNCHANGED <<fetchVars, histVars, files, dlVars, scrapeVars, syncVars, rateVars>>

-----------------------------------------------------------------------------
(* Runs of load_config.                                                    *)

ConfigPaths == {NoPath, PathOf(FALSE, <<"out">>), PathOf(TRUE, <<"srv", "out">>)}
ConfigSymbols ==
    {TomlAbsent, TomlList(<<"bdo", " bdo ", "">>), TomlList(<<"BDO", "acm">>),
     TomlStr("bdo, acm"), TomlInt(5)}
ConfigCaps ==
    {TomlAbsent, TomlInt(0 - 1), TomlInt(0), TomlInt(5), TomlFloat("finite", 2),
     TomlFloat("inf", 0), TomlFloat("nan", 0), TomlStr("5"), TomlStr("abc"),
     TomlBool(TRUE), TomlBool(FALSE)}
Tomls ==
    [data_dir : ConfigPaths, companies_csv : ConfigPaths,
     history_dir : {NoPath, PathOf(FALSE, <<"out">>)},
     combined_csv : {NoPath, PathOf(TRUE, <<"srv", "out">>)},
     symbols : ConfigSymbols, max_companies : ConfigCaps]

InitConfig ==
    /\ cache = EmptyCache /\ cacheWas = cache
    /\ files = NoOutputFiles
    /\ io = <<>> /\ call = NoCall /\ answer = NoAnswer /\ ret = NoRet
    /\ prevIo = <<>> /\ prevCall = NoCall /\ prevRet = NoRet
    /\ nCalls = 0
    /\ DownloadIdle /\ ScrapeIdle /\ SyncIdle /\ ClientIdle
    /\ given \in Tomls
    /\ cleaned = <<>> /\ again = <<>>
    /\ utilPc = "start"

NextConfig == LoadConfig

SpecConfig == InitConfig /\ [][NextConfig]_vars

-----------------------------------------------------------------------------
(* Runs of fetch_historical_data against one cache directory.              *)

InitFetch ==
    /\ cache \in OldCaches /\ cacheWas = cache
    /\ files = NoOutputFiles
    /\ io = <<>> /\ call = NoCall /\ answer = NoAnswer /\ ret = NoRet
    /\ prevIo = <<>> /\ prevCall = NoCall /\ prevRet = NoRet
    /\ nCalls = 0
    /\ DownloadIdle /\ ScrapeIdle /\ SyncIdle /\ ClientIdle /\ UtilIdle

\* The cache runs leave out the answer without a valid row (to the cache it
\* is an answer with rows), and a read or write fault is drawn only for a
\* call that reads or may write.
FetchEnvs == {env \in Envs : env.net.payload # PayloadNoRows}
FaultsCanHappen(env, company, cache_dir, refresh) ==
    /\ ~env.readOk =>
            /\ TryLoad(cache_dir, refresh)
            /\ cache[_cache_key(company, StartPayload, EndPayload)].kind # "absent"
    /\ env.write # "ok" => cache_dir # "none"

Fetch ==
    /\ nCalls < MaxCalls
    /\ \E company \in Companies, cache_dir \in CacheDirs, refresh \in BOOLEAN, env \in FetchEnvs :
        LET r == fetch_historical_data(company, StartPayload, EndPayload, cache_dir, refresh,
                                       cache, env)
        IN  /\ FaultsCanHappen(env, company, cache_dir, refresh)
            /\ cache' = r.disk
            /\ cacheWas' = cache
            /\ io' = r.io
            /\ answer' = IF Has(r.io, "post") THEN env.net ELSE NoAnswer
            /\ ret' = r.outcome
            /\ call' = Call(company, StartPayload, EndPayload, cache_dir, refresh)
    /\ prevIo' = io /\ prevCall' = call /\ prevRet' = ret
    /\ nCalls' = nCalls + 1
    /\ UNCHANGED <<files, dlVars, scrapeVars, syncVars, rateVars>>
    /\ UNCHANGED utilVars

NextFetch == Fetch

SpecFetch == InitFetch /\ [][NextFetch]_vars

-----------------------------------------------------------------------------
(* Runs of the row extraction: one uncached fetch of any payload.          *)

ItemSeqs == UNION {[1..n -> ChartItems] : n \in 0..MaxItems}
ParsePayloads ==
    {ChartPayload(items) : items \in ItemSeqs}
        \cup {PayloadNoChart, PayloadNullChart, PayloadArray, PayloadNull}

InitParse ==
    /\ cache = EmptyCache /\ cacheWas = cache
    /\ files = NoOutputFiles
    /\ io = <<>> /\ call = NoCall /\ answer = NoAnswer /\ ret = NoRet
    /\ prevIo = <<>> /\ prevCall = NoCall /\ prevRet = NoRet
    /\ nCalls = 0
    /\ DownloadIdle /\ ScrapeIdle /\ SyncIdle /\ ClientIdle /\ UtilIdle

FetchPayload ==
    /\ nCalls = 0
    /\ \E payload \in ParsePayloads :
        LET env == [readOk |-> TRUE, net |-> Response(200, TRUE, payload), write |-> "ok"]
            r == fetch_historical_data(Acme, StartPayload, EndPayload, "none", FALSE, cache, env)
        IN  /\ cache' = r.disk
            /\ cacheWas' = cache
            /\ io' = r.io
            /\ answer' = env.net
            /\ ret' = r.outcome
            /\ call' = Call(Acme, StartPayload, EndPayload, "none", FALSE)
    /\ nCalls' = nCalls + 1
    /\ UNCHANGED <<files, prevIo, prevCall, prevRet, dlVars, scrapeVars, syncVars, rateVars>>
    /\ UNCHANGED utilVars

NextParse == FetchPayload

SpecParse == InitParse /\ [][NextParse]_vars

-----------------------------------------------------------------------------
(* Claims about fetch_historical_data and its cache.                       *)

CachePathOf(c) == _cache_key(c.company, c.start_date, c.end_date)

\* The latest call repeats the call before it, which had caching enabled,
\* missed the cache, asked the endpoint and returned rows.
RepeatsMissedCall ==
    /\ nCalls >= 2
    /\ prevCall.cache_dir # "none" /\ ~prevCall.refresh
    /\ Has(prevIo, "post") /\ prevRet.kind = "return"
    /\ call = prevCall

C8_BadEntryIsCacheMiss ==
    (/\ nCalls >= 1 /\ call.cache_dir # "none" /\ ~call.refresh
     /\ \/ cacheWas[CachePathOf(call)].kind \in {"invalid_json", "undecodable"}
        \/ Has(io, "cache_read_oserror"))
        => Has(io, "post") /\ ~(ret.kind = "raise" /\ ret.exc = "UnicodeDecodeError")

\* C9: on a cache miss with caching enabled, a failed cache write does not
\* fail the fetch: the call ends as the same call with a successful write
\* ends, and raises no OSError.
C9_WriteFailureIsIgnored ==
    Has(io, "cache_write_oserror") =>
        /\ ret = fetch_historical_data(
                    call.company, call.start_date, call.end_date, call.cache_dir,
                    call.refresh, cacheWas,
                    [readOk |-> ~Has(io, "cache_read_oserror"), net |-> answer,
                     write |-> "ok"]).outcome
        /\ ret.exc # "OSError"

C9_Witness ==
    /\ Has(io, "cache_write_oserror")
    /\ cache[CachePathOf(call)] = InvalidJsonFile
    /\ ret.kind = "return" /\ Len(ret.rows) = 2

\* The answer of the endpoint is a failed fetch: a transport error, a status
\* outside 2xx, or a body that does not decode.
FailedFetch(a) ==
    \/ a.kind = "transport_error"
    \/ a.kind = "response" /\ (a.status < 200 \/ a.status >= 300 \/ ~a.decodable)

\* C25: a cache entry is created or overwritten only after the request
\* returned a 2xx response whose body decoded as JSON, and it is written
\* before the rows are parsed, so it is there even when the parse raises; a
\* failed fetch (transport error, non-2xx, undecodable body) leaves every
\* entry unchanged, so the same call repeated without refresh, having
\* found no entry to read the first time, asks the endpoint again.
C25_CacheWrittenOnlyAfterGoodAnswer ==
    nCalls >= 1 =>
        /\ cache # cacheWas => (answer.kind = "response" /\ ~FailedFetch(answer))
        /\ Has(io, "cache_write") => cache[CachePathOf(call)] = JsonFile(answer.payload)
        /\ FailedFetch(answer) => cache = cacheWas
        /\ (/\ nCalls >= 2 /\ call = prevCall /\ ~call.refresh
            /\ Has(prevIo, "post") /\ ~Has(prevIo, "cache_read_oserror")
            /\ prevRet.kind = "raise"
            /\ prevRet.exc \in {"ConnectionError", "HTTPError", "JSONDecodeError"})
                => Has(io, "post")

\* C26: the cache entries of distinct requests never collide: two fetches
\* that differ in company_id, security_id, start date or end date address
\* different cache files.
C26_DistinctRequestsDistinctFiles ==
    utilPc = "once" => (given[1] # given[2] => cleaned[1] # cleaned[2])

\* A chart item that has a CHART_DATE in the backend format and all five
\* price fields.
ValidItem(item) ==
    /\ item.obj
    /\ item.CHART_DATE.t = "str" /\ item.CHART_DATE.s \in ChartDateTexts
    /\ \A f \in PriceFields : item[f].t # "absent"

RowOf(item, symbol) ==
    HistoricalPrice(ChartDateOf(item.CHART_DATE.s), symbol, Str(item.VALUE), Str(item.OPEN),
                    Str(item.CLOSE), Str(item.HIGH), Str(item.LOW))

RECURSIVE RowsOfValidItems(_, _)
RowsOfValidItems(items, symbol) ==
    IF items = <<>> THEN <<>>
    ELSE IF ValidItem(Head(items))
        THEN <<RowOf(Head(items), symbol)>> \o RowsOfValidItems(Tail(items), symbol)
    ELSE RowsOfValidItems(Tail(items), symbol)

\* C10: the fetch returns one row per valid chart item, in payload order, and
\* nothing for any other item: n valid and m invalid items give n rows.
C10_OneRowPerValidItem ==
    (nCalls = 1 /\ answer.payload.top = "object" /\ answer.payload.chartData.t = "list")
        => /\ ret.kind = "return"
           /\ ret.rows = RowsOfValidItems(answer.payload.chartData.items, call.company.stock_symbol)

\* C11: fetch_historical_data raises only for a transport or status failure
\* or a body that cannot be decoded: with a decoded object whose chartData is
\* a list, no item of any shape (a missing field, a date that is absent, not
\* text or unparseable, an item that is not an object) makes the call raise.
C11_MalformedItemNeverRaises ==
    (nCalls = 1 /\ answer.payload.top = "object" /\ answer.payload.chartData.t = "list")
        => ret.kind # "raise"

-----------------------------------------------------------------------------
(* Claims about download_historical_data.                                  *)

\* C2: when the fetch for one company fails (a transport failure, a bad
\* status, a malformed payload of any shape), the failure is caught and
\* logged and download_historical_data goes on to the later companies: no
\* exception leaves it.
C2_FetchFailureIsCaught ==
    ret.kind = "raise" =>
        /\ dlPc # "raised"
        /\ logged \in {"Request failed", "Unexpected payload"}

\* The next loop iteration is for a company that passes the allow-list and
\* the cap.
NextIsEligible ==
    /\ dlPc = "loop" /\ idx <= Len(args.companies)
    /\ ~FilteredOut(args.companies[idx], args.symbols)
    /\ ~CapReached(args.max_companies, processed)

\* C6: with refresh=false, the iteration for an eligible company whose output
\* file exists sends no request, reads and writes no cache file, writes no
\* output file, counts the company and appends its path to saved_paths.
C6_ExistingFileSkipsFetch ==
    [][(NextIsEligible /\ ~args.refresh /\ files[OutputPath(args.companies[idx])].exists)
        => /\ io' = <<>>
           /\ cache' = cache
           /\ files' = files
           /\ processed' = processed + 1
           /\ saved_paths' = Append(saved_paths, OutputPath(args.companies[idx]))
           /\ dlPc' = "loop" /\ idx' = idx + 1]_vars

C6_Witness ==
    /\ logged = "Skipping (already exists)"
    /\ ~args.refresh /\ args.cache_dir # "none"
    /\ idx = 2 /\ args.companies[1] = Acme
    /\ cache[_cache_key(Acme, StartPayload, EndPayload)].kind = "json"
    /\ files[OutputPath(Acme)] = OldCsvFile
    /\ saved_paths = <<OutputPath(Acme)>> /\ processed = 1
    /\ io = <<>>

\* The company's symbol is on the allow-list, letter case aside, or there is
\* no allow-list.
OnAllowList(company, symbols) ==
    \/ symbols = <<>>
    \/ \E i \in 1..Len(symbols) : Upper(Strip(symbols[i])) = Upper(company.stock_symbol)

\* How many of the companies before position n are on the allow-list.
ListedBefore(n) ==
    Cardinality({i \in 1..(n - 1) : OnAllowList(args.companies[i], args.symbols)})

\* The company at position n is one of the first max_companies on the
\* allow-list.
Considered(n) ==
    /\ OnAllowList(args.companies[n], args.symbols)
    /\ args.max_companies = NoCap \/ ListedBefore(n) < args.max_companies

\* C12: only the companies on the allow-list are considered, and of those
\* only the first max_companies in list order: the count of processed
\* companies is the count of considered ones, and the iteration for any other
\* company counts nothing, sends no request, and touches no cache or output
\* file.
C12_OnlyListedCompaniesUpToCap ==
    [][(dlPc = "loop" /\ idx <= Len(args.companies))
        => /\ processed = Cardinality({i \in 1..(idx - 1) : Considered(i)})
           /\ IF Considered(idx)
              THEN processed' = processed + 1
              ELSE /\ processed' = processed /\ saved_paths' = saved_paths
                   /\ io' = <<>> /\ cache' = cache /\ files' = files]_vars

C12_Witness ==
    /\ args.companies = <<Acme, Bdo>> /\ args.symbols = <<" bdo ">>
    /\ args.max_companies = 1
    /\ dlPc = "returned" /\ idx = 3 /\ processed = 1
    /\ call.company = Bdo /\ Has(io, "post")
    /\ saved_paths = <<OutputPath(Bdo)>>

\* C13: the iteration for an eligible company whose fetch returns no row
\* creates or overwrites no output file, is logged as "No data" and not as a
\* failure, adds nothing to saved_paths, and goes on to the next company.
C13_NoRowsWritesNothing ==
    [][(NextIsEligible /\ ret'.kind = "return" /\ ret'.rows = <<>>)
        => /\ files' = files
           /\ saved_paths' = saved_paths
           /\ logged' = "No data"
           /\ dlPc' = "loop" /\ idx' = idx + 1 /\ dlExc' = ""]_vars

C13_Witness ==
    /\ args.refresh /\ args.companies = <<Acme, Bdo>>
    /\ idx = 2 /\ dlPc = "loop"
    /\ ret.kind = "return" /\ ret.rows = <<>> /\ Has(io, "post")
    /\ files[OutputPath(Acme)] = OldCsvFile
    /\ saved_paths = <<>>

\* With refresh=true, the iteration for an eligible company asks the
\* endpoint, reads no cache file, and returns the rows of the answer.
RefreshAsksEndpoint ==
    /\ Has(io', "post")
    /\ ~Has(io', "cache_read") /\ ~Has(io', "cache_read_oserror")
    /\ ret'.kind = "return" =>
            ret' = ParseChartData(answer'.payload, args.companies[idx].stock_symbol)

\* The iteration returned rows and wrote them over the output file.
RefreshWritesOutput ==
    (ret'.kind = "return" /\ ret'.rows # <<>>) =>
        /\ files' = [files EXCEPT ![OutputPath(args.companies[idx])] = CsvFile(ret'.rows)]
        /\ saved_paths' = Append(saved_paths, OutputPath(args.companies[idx]))

\* C14, as stated: with refresh=true every eligible company is fetched from
\* the endpoint even when its output file and a valid cache entry exist, no
\* row comes from the cache, and a fetch that returns at least one row
\* overwrites the output file and, with caching enabled, the cache entry.
C14_RefreshRefetchesAndOverwrites ==
    [][(NextIsEligible /\ args.refresh)
        => /\ RefreshAsksEndpoint
           /\ RefreshWritesOutput
           /\ (ret'.kind = "return" /\ ret'.rows # <<>> /\ args.cache_dir # "none") =>
                cache'[CachePathOf(call')] = JsonFile(answer'.payload)]_vars

\* C14, amended: the same, the cache entry being overwritten when the write
\* of the cache file succeeds; a failed write leaves the old entry, or a
\* cut-off one, and changes nothing else.
C14_RefreshOverwritesWhenWriteSucceeds ==
    [][(NextIsEligible /\ args.refresh)
        => /\ RefreshAsksEndpoint
           /\ RefreshWritesOutput
           /\ (ret'.kind = "return" /\ ret'.rows # <<>> /\ args.cache_dir # "none") =>
                /\ Has(io', "cache_write") \/ Has(io', "cache_write_oserror")
                /\ Has(io', "cache_write") =>
                        cache'[CachePathOf(call')] = JsonFile(answer'.payload)
                /\ Has(io', "cache_write_oserror") =>
                        cache'[CachePathOf(call')] \in {cache[CachePathOf(call')], InvalidJsonFile}]_vars

C14_Witness ==
    /\ args.refresh /\ args.cache_dir # "none"
    /\ call.company = Acme /\ idx = 2
    /\ cacheWas[CachePathOf(call)] = JsonFile(PayloadA)
    /\ cache[CachePathOf(call)] = JsonFile(PayloadBA)
    /\ io = <<"post", "cache_write", "csv_write">>
    /\ Len(ret.rows) = 2 /\ files[OutputPath(Acme)] = CsvFile(ret.rows)
    /\ saved_paths = <<OutputPath(Acme)>>

-----------------------------------------------------------------------------
(* Claims about scrape_companies.                                          *)

\* Page p ends the scrape: its status is not 200 or it has no parseable row.
EndsScrape(p) ==
    \/ DirectoryAnswer(directory, p).status # 200
    \/ parse_companies_from_html(DirectoryAnswer(directory, p).rows) = <<>>

\* The first such page (the page after the directory's last is one).
FirstEndingPage == CHOOSE k \in 1..(Len(directory) + 1) :
    EndsScrape(k) /\ \A j \in 1..(k - 1) : ~EndsScrape(j)

\* The last page whose companies are kept: page k-1, or max_pages if that
\* comes first.
LastKeptPage ==
    IF max_pages # NoLimit /\ max_pages < FirstEndingPage - 1 THEN max_pages
    ELSE FirstEndingPage - 1

RECURSIVE CompaniesOfPages(_, _)
CompaniesOfPages(from, to) ==
    IF from > to THEN <<>>
    ELSE parse_companies_from_html(DirectoryAnswer(directory, from).rows)
            \o CompaniesOfPages(from + 1, to)

\* C3: scrape_companies returns exactly the companies of pages 1..k-1 (or
\* 1..max_pages), in page order and row order, where page k is the first
\* page with a status other than 200 or without a parseable row.
C3_ReturnsCompaniesOfPagesBeforeEnd ==
    scPc = "returned" => all_companies = CompaniesOfPages(1, LastKeptPage)

C3_Witness ==
    /\ scPc = "returned" /\ max_pages = NoLimit
    /\ fetched = <<1, 2, 3>>
    /\ directory[3] = PageResponse(200, <<RowOneCell, RowBadOnclick>>)
    /\ all_companies = <<Bdo, Acme, Acme>>

\* C4: a directory fetch failure, be it a status other than 200 or a
\* transport failure, never makes scrape_companies raise: the pagination
\* ends and the companies accumulated so far are returned.
C4_ScrapeNeverRaises == scPc # "raised"

\* The fetches so far are pages 1, 2, ... in order, none follows a page that
\* ends the scrape, a finished scrape that the limit did not cut made
\* exactly k fetches, and there are at most max_pages fetches.
FetchesInOrderAndBounded ==
    /\ fetched = [i \in 1..Len(fetched) |-> i]
    /\ \A i \in 1..(Len(fetched) - 1) : ~EndsScrape(i)
    /\ (scPc # "loop" /\ (max_pages = NoLimit \/ max_pages >= FirstEndingPage))
            => Len(fetched) = FirstEndingPage
    /\ max_pages # NoLimit => Len(fetched) <= max_pages

\* C23: scrape_companies requests pages 1, 2, 3, ... in increasing order,
\* each at most once, and stops right after the first page k that is not
\* 200 or has no parseable row, with exactly k fetches; with max_pages = m
\* it makes at most m fetches (none when m = 0) and terminates whatever the
\* directory answers.
C23_FetchesPagesInOrderAndStops ==
    /\ []FetchesInOrderAndBounded
    /\ (max_pages # NoLimit) ~> (scPc # "loop")

C23_Witness ==
    /\ scPc = "returned" /\ max_pages = 2 /\ fetched = <<1, 2>>
    /\ ~EndsScrape(1) /\ ~EndsScrape(2) /\ ~EndsScrape(3)

\* A row to keep: at least two cells, a link in the first whose onclick
\* carries cmDetail with two numbers, a link with text in the second.
KeepsRow(row) ==
    /\ row.cells >= 2
    /\ row.nameLink /\ CmDetailMatch(row.onclick) # <<>>
    /\ row.symbolLink /\ row.symbol # ""

RECURSIVE CompaniesOfRows(_)
CompaniesOfRows(rows) ==
    IF rows = <<>> THEN <<>>
    ELSE (IF KeepsRow(Head(rows))
          THEN <<Company(CmDetailMatch(Head(rows).onclick)[1], CmDetailMatch(Head(rows).onclick)[2],
                         StripText(Head(rows).name), StripText(Head(rows).symbol))>>
          ELSE <<>>) \o CompaniesOfRows(Tail(rows))

RECURSIVE KeptOfPages(_, _)
KeptOfPages(from, to) ==
    IF from > to THEN <<>>
    ELSE CompaniesOfRows(DirectoryAnswer(directory, from).rows) \o KeptOfPages(from + 1, to)

\* C21: of the rows of each page parsed, parse_companies_from_html keeps
\* those with two cells, a cmDetail link in the first and a link with text
\* in the second, one Company each with the ids and the trimmed texts, and
\* skips every other row: the companies gathered from the pages kept so far
\* are those of exactly these rows.
C21_KeepsExactlyWellFormedRows ==
    scPc = "loop" => all_companies = KeptOfPages(1, page - 1)

-----------------------------------------------------------------------------
(* Claims about sync_data.                                                 *)

\* C5: no acquisition fault (a directory fetch failure, a transport failure
\* or bad status for a company, a malformed payload, a cache read or write
\* failure) aborts sync_data: it goes through its three steps to the combine
\* step. Every fault of these runs is an acquisition fault.
C5_SyncNotAbortedByAcquisitionFault == syncPc # "aborted"

\* ensure_companies_csv returns in this step.
EnsureReturns == syncPc = "step1" /\ syncPc' = "step2"

\* C27: whenever ensure_companies_csv returns, the companies file exists
\* and holds exactly the returned list; with an existing file and
\* refresh=false no directory request is made and the file is not modified;
\* otherwise the file is overwritten with whatever the scrape returned, a
\* shorter or empty list included.
C27_FileHoldsReturnedList ==
    [][EnsureReturns =>
        /\ companies_csv'.exists /\ companies_csv'.companies = args'.companies
        /\ IF companies_csv.exists /\ ~syncArgs.refresh
           THEN fetched' = <<>> /\ companies_csv' = companies_csv
           ELSE /\ companies_csv'.companies = all_companies
                /\ args'.companies = all_companies]_vars

-----------------------------------------------------------------------------
(* Claims about the rate limit.                                            *)

\* C7: with one sequential caller and a limit r > 0, consecutive requests
\* are dispatched at least r apart on the client's clock, a caller who
\* sleeps is not woken before the last dispatch plus r, and the first
\* request does not sleep; with r = 0 (given so, or clamped from a negative
\* value) no request sleeps and no caller is ever sleeping.
C7_SequentialSpacing ==
    /\ rate_limit_seconds >= 0
    /\ rate_limit_seconds > 0 =>
        /\ \A i \in 1..(Len(dispatched) - 1) :
              dispatched[i + 1].at - dispatched[i].at >= rate_limit_seconds
        /\ \A c \in DOMAIN rpc :
              rpc[c] = "sleeping" => wake[c] >= last_request_at + rate_limit_seconds
        /\ dispatched # <<>> => ~dispatched[1].slept
    /\ rate_limit_seconds = 0 =>
        /\ \A i \in 1..Len(dispatched) : ~dispatched[i].slept
        /\ \A c \in DOMAIN rpc : rpc[c] = "idle"

\* C7 witness: a second request slept and left exactly r after the first.
C7_Witness ==
    /\ rate_limit_seconds > 0
    /\ Len(dispatched) >= 2
    /\ dispatched[2].slept
    /\ dispatched[2].at - dispatched[1].at = rate_limit_seconds

\* Every two consecutive dispatches are at least rate_limit_seconds apart.
SpacedDispatches ==
    \A i \in 1..(Len(dispatched) - 1) :
        dispatched[i + 1].at - dispatched[i].at >= rate_limit_seconds

\* C24, as stated: under every interleaving of two concurrent callers of
\* request() on one PSEClient, no two requests are dispatched less than
\* rate_limit_seconds apart.
C24_SpacingUnderEveryInterleaving == SpacedDispatches

\* C24, amended: the spacing holds for the requests of two callers of one
\* PSEClient as long as no call of request() begins while another is under
\* way.
C24_SpacingWhenCallsDoNotOverlap == ~overlapped => SpacedDispatches

\* C24 witness: the second caller's request followed the first caller's
\* without overlap, slept, and left exactly r after it.
C24_Witness ==
    /\ rate_limit_seconds > 0 /\ ~overlapped
    /\ Len(dispatched) >= 2
    /\ dispatched[1].caller = 1 /\ dispatched[2].caller = 2
    /\ dispatched[2].slept
    /\ dispatched[2].at - dispatched[1].at = rate_limit_seconds

-----------------------------------------------------------------------------
(* Claims about sanitize_filename.                                         *)

\* C15: sanitize_filename is idempotent: applied to its own result it
\* returns that result.
C15_SanitizeIdempotent == utilPc = "twice" => again = cleaned

\* Every character of the argument is one that the cleaning removes from the
\* ends: whitespace, an unsafe character (a "-" after line 37), ".", "_", "-".
NothingRemains(v) ==
    \A i \in 1..Len(v) :
        html_unescape(v)[i] \in Whitespace \cup UnsafeChars \cup {".", "_", "-"}

\* C16: for every argument, the empty string included, sanitize_filename
\* returns a string that is not empty and has at most 140 characters, and
\* returns "unknown" when nothing remains after the cleaning.
C16_SanitizeTotal ==
    utilPc \in {"once", "twice"} =>
        /\ cleaned # <<>> /\ Len(cleaned) <= 140
        /\ NothingRemains(given) => cleaned = Unknown
        /\ utilPc = "twice" => again # <<>> /\ Len(again) <= 140

C16_Witness ==
    /\ utilPc = "once"
    /\ Len(given) = MaxLength + 3 /\ given[MaxLength + 3] = "a"
    /\ Len(cleaned) = 140

\* C17: the result holds no unsafe character, no whitespace, no "&" and no
\* two underscores in a row; an unsafe character has become "-", "&" has
\* become "and", a run of whitespace one "_".
C17_SanitizeResultIsSafe ==
    utilPc \in {"once", "twice"} =>
        /\ \A i \in 1..Len(cleaned) : cleaned[i] \notin UnsafeChars \cup Whitespace \cup {"&"}
        /\ \A i \in 1..(Len(cleaned) - 1) : ~(cleaned[i] = "_" /\ cleaned[i + 1] = "_")
        /\ given = <<"a", "/", " ", "&">> => cleaned = <<"a", "-", "_", "a", "n", "d">>
        /\ given = <<"a", " ", " ", "a">> => cleaned = <<"a", "_", "a">>

C17_Witness ==
    /\ utilPc = "once"
    /\ given = <<"a", "/", " ", "&">>
    /\ cleaned = <<"a", "-", "_", "a", "n", "d">>

-----------------------------------------------------------------------------
(* Claims about ensure_payload_date.                                       *)

\* The calendar day a value denotes: that of a date or datetime object, of a
\* text YYYY-MM-DD, of a text MM-DD-YYYY; NoDate for anything else.
DayDenoted(value) ==
    IF value.type \in {"date", "datetime"} THEN value.day
    ELSE LET f == value.fields
         IN  IF value.pad \/ Len(f) # 3 THEN NoDate
             ELSE IF Len(f[1]) = 4 /\ Len(f[2]) = 2 /\ Len(f[3]) = 2
                 THEN strptime(f[1], f[2], f[3])
             ELSE IF Len(f[1]) = 2 /\ Len(f[2]) = 2 /\ Len(f[3]) = 4
                 THEN strptime(f[3], f[1], f[2])
             ELSE NoDate

\* C18: an ISO text, an MM-DD-YYYY text and a date object of the same
\* calendar day all give the MM-DD-YYYY text of that day, and the text
\* returned is a fixed point of ensure_payload_date.
C18_SameDaySameText ==
    utilPc \in {"once", "twice"} =>
        /\ DayDenoted(given) # NoDate =>
            LET d == DayDenoted(given)
            IN  cleaned = TextValue(FALSE, <<TwoDigits(d[2]), TwoDigits(d[3]), FourDigits(d[1])>>)
        /\ utilPc = "twice" => again = cleaned

C18_Witness ==
    /\ utilPc = "twice"
    /\ given = TextValue(FALSE, <<"2024", "01", "02">>)
    /\ cleaned = TextValue(FALSE, <<"01", "02", "2024">>)
    /\ cleaned = ensure_payload_date(DateObject(<<2024, 1, 2>>))
    /\ again = cleaned

-----------------------------------------------------------------------------
(* Claims about combine_csvs.                                              *)

\* The file names of the model in lexicographic order.
NamesInOrder == <<"ACM_Acme_Corp.csv", "BDO_Banco_de_Oro.csv", "notes.csv">>

\* The base name holds an underscore.
WellNamed(name) == SplitStem(name) # <<>>

\* The files of the directory whose rows belong in the combined file.
Combinable(name) == name \in DOMAIN files /\ files[name].exists /\ WellNamed(name)

\* The number of rows of the combinable files that sort before position n.
RECURSIVE RowsBefore(_)
RowsBefore(n) ==
    IF n <= 1 THEN 0
    ELSE RowsBefore(n - 1) +
         (IF Combinable(NamesInOrder[n - 1])
          THEN Len(files[NamesInOrder[n - 1]].rows) ELSE 0)

\* The data columns of a line, as they are written.
DataOf(row) ==
    <<Written(row.Date), Written(row.Value), Written(row.Open), Written(row.Close),
      Written(row.High), Written(row.Low)>>

\* C19: a file whose base name has no underscore is skipped and every row of
\* every other file is emitted: the combined file holds the rows of the
\* well-named files and nothing else, file after file in the order of the
\* sorted names, each file's rows in their order.
C19_CombinesWellNamedFilesInOrder ==
    (utilPc = "once" /\ \E n \in DOMAIN files : files[n].exists) =>
        /\ combined_csv.exists
        /\ Len(combined_csv.rows) = RowsBefore(Len(NamesInOrder) + 1)
        /\ \A n \in 1..Len(NamesInOrder) :
              Combinable(NamesInOrder[n]) =>
                 \A k \in 1..Len(files[NamesInOrder[n]].rows) :
                    LET out == combined_csv.rows[RowsBefore(n) + k]
                        row == files[NamesInOrder[n]].rows[k]
                    IN  /\ DataOf(out) = DataOf(row)
                        /\ out.Company = SplitStem(NamesInOrder[n])[2]
                        /\ out.Symbol \in {row.Symbol, SplitStem(NamesInOrder[n])[1]}

C19_Witness ==
    /\ utilPc = "once"
    /\ files["notes.csv"].exists /\ Len(files["notes.csv"].rows) = 1
    /\ Len(files["ACM_Acme_Corp.csv"].rows) = 2
    /\ files["ACM_Acme_Corp.csv"].rows[1] # files["ACM_Acme_Corp.csv"].rows[2]
    /\ files["BDO_Banco_de_Oro.csv"].exists /\ Len(files["BDO_Banco_de_Oro.csv"].rows) = 1
    /\ Len(combined_csv.rows) = 3
    /\ combined_csv.rows[3].Company = "Banco_de_Oro"

\* C20: in each emitted row the Symbol column is the row's own Symbol when
\* it has one that is not empty, and the part of the base name before the
\* first underscore otherwise; the Company column is the part after it.
C20_SymbolFallsBackToFileName ==
    utilPc = "once" =>
        \A n \in 1..Len(NamesInOrder) :
            Combinable(NamesInOrder[n]) =>
                \A k \in 1..Len(files[NamesInOrder[n]].rows) :
                    LET out == combined_csv.rows[RowsBefore(n) + k]
                        row == files[NamesInOrder[n]].rows[k]
                        stem == SplitStem(NamesInOrder[n])
                    IN  /\ out.Symbol = IF row.Symbol = None \/ row.Symbol = ""
                                        THEN stem[1] ELSE row.Symbol
                        /\ out.Company = stem[2]

C20_Witness ==
    /\ utilPc = "once"
    /\ files["BDO_Banco_de_Oro.csv"].exists
    /\ Len(files["BDO_Banco_de_Oro.csv"].rows) = 2
    /\ files["BDO_Banco_de_Oro.csv"].rows[1].Symbol = "XYZ"
    /\ files["BDO_Banco_de_Oro.csv"].rows[2].Symbol = None
    /\ ~files["ACM_Acme_Corp.csv"].exists
    /\ combined_csv.rows[1].Symbol = "XYZ" /\ combined_csv.rows[2].Symbol = "BDO"
    /\ combined_csv.rows[1].Company = "Banco_de_Oro"

-----------------------------------------------------------------------------
(* Claims about load_config.                                               *)

\* A path of the file as the claim resolves it: against the directory of
\* the config file when it is relative.
Resolved(path) == IF path.abs THEN path ELSE PathOf(TRUE, BaseDir.parts \o path.parts)

\* C22: load_config resolves relative paths against the directory of the
\* config file, puts companies.csv, history and combined.csv under the
\* resolved data_dir when they are not set, upper-cases every symbol, and
\* keeps max_companies only when it is a positive integer: any other value
\* means no cap.
C22_LoadConfigResolves ==
    utilPc = "once" =>
        LET dir == Resolved(IF given.data_dir.none THEN DefaultDataDir ELSE given.data_dir)
        IN  /\ cleaned.exc = ""
            /\ cleaned.data_dir = dir
            /\ cleaned.companies_csv =
                  IF given.companies_csv.none
                  THEN PathOf(TRUE, dir.parts \o <<"companies.csv">>)
                  ELSE Resolved(given.companies_csv)
            /\ cleaned.history_dir =
                  IF given.history_dir.none THEN PathOf(TRUE, dir.parts \o <<"history">>)
                  ELSE Resolved(given.history_dir)
            /\ cleaned.combined_csv =
                  IF given.combined_csv.none
                  THEN PathOf(TRUE, dir.parts \o <<"combined.csv">>)
                  ELSE Resolved(given.combined_csv)
            /\ \A i \in 1..Len(cleaned.symbols) : cleaned.symbols[i] \in {"BDO", "ACM"}
            /\ cleaned.max_companies =
                  IF given.max_companies.t = "int" /\ given.max_companies.n > 0
                  THEN given.max_companies.n ELSE NoCap

====
